---- MODULE Spec2Model ----
(***************************************************************************)
(* A model of the eval_agent evaluation harness: the component registries  *)
(* (registry.py), the memoising Dataset base class (datasets/base.py) and  *)
(* the JSONL loader (datasets/jsonl.py), the two tasks (tasks/*.py), the   *)
(* default ModelAdapter.predict_batch (models/base.py) and the             *)
(* orchestrator EvaluationAgent.run (runner.py).                           *)
(*                                                                         *)
(* Eight specifications share the variables below; each leaves the          *)
(* variables of the other parts at their initial values:                   *)
(*   SpecRegistry  register / create / get calls on the four registries    *)
(*   SpecDataset   examples() / iter() / len() calls on one Dataset        *)
(*   SpecTask      Task.run and predict_batch on a dataset and a model     *)
(*   Spec          one EvaluationAgent.run, step by step                   *)
(*   SpecMetric    Metric.compute on examples and responses                *)
(*   SpecMcp       warmup / predict calls on one MCPModelAdapter           *)
(*   SpecRuns      runs of the API process writing their predictions file  *)
(*   SpecRace      two threads calling one Dataset or one Registry         *)
(***************************************************************************)
EXTENDS Integers, Sequences, FiniteSets, TLC

VARIABLES
    items,      \* Registry._items of each of the four module-level registries
    regLast,    \* the last registry call: its arguments, what it raised or returned
    regBefore,  \* items as they were when the last registry call began
    firstCall,  \* per registry and key: the class of the first register call made for it
    file,       \* the JSONL file behind the Dataset: its lines, or Missing
    cache,      \* Dataset._cache
    loadCalls,  \* how many times Dataset._load has been invoked
    loadsDone,  \* how many of these ran to completion over all records
    dsLast,     \* the last Dataset call: what it raised or returned
    dsFirst,    \* the examples the first load that ran to completion produced
    taskKind,   \* the class of the task: TextClassificationTask or RetrievalQuestionAnsweringTask
    model,      \* the ModelAdapter bound to the task: its class and attributes
    taskOut,    \* the last Task.run / predict_batch call: result and the calls it made; what the last Task.warmup raised
    config,     \* EvaluationAgent.config
    pc,         \* where EvaluationAgent.run stands
    now,        \* the clock datetime.now reads, in ticks
    locals,     \* run's local variables: metric_instances, start_time, completed_time,
                \* responses, metrics, predictions
    result,     \* the EvaluationResult run returned, NoResult while it has returned none
    raised,     \* the exception that left run, None while none has
    thrown,     \* the exceptions raised inside run by the components, in order
    events,     \* the calls run has made on its collaborators, in order
    fs,         \* the files written so far: path -> payload
    mIn,        \* a metric and the examples and responses its compute is called with
    mOut,       \* the last compute call on the metric: what it raised or returned
    adapter,    \* an MCPModelAdapter: model_id, _ready, _server_info
    server,     \* the MCP server behind the adapter's session factory: how it answers
    mcpLast,    \* the last warmup / predict call on the adapter: what it raised or
                \* returned, the session calls it issued, in order, what the call
                \* before it raised and the value of found when it began
    found,      \* whether a warmup session of the adapter has found model_id among
                \* the tools the server listed
    heap,       \* the Dataset, ModelAdapter and Task instances constructed so far, each
                \* with its state, the run that constructed it and the runs that have
                \* called it
    runs,       \* per create-run request: where its EvaluationAgent.run stands, its
                \* configuration and its local variables
    disk,       \* the files of the output directories: path -> content
    writes,     \* the runs that have written their record, in the order of the writes
    threads     \* per thread that calls register: the call, where it stands in the
                \* decorator and what it raised

regVars == <<items, regLast, regBefore, firstCall>>
dsVars == <<file, cache, loadCalls, loadsDone, dsLast, dsFirst>>

taskVars == <<taskKind, model, taskOut>>

runVars == <<config, pc, now, locals, result, raised, thrown, events, fs>>

metricVars == <<mIn, mOut>>

mcpVars == <<adapter, server, mcpLast, found>>

runsVars == <<heap, runs, disk, writes>>

vars == <<regVars, dsVars, taskVars, runVars, metricVars, mcpVars, runsVars, threads>>

None == "None"

(***************************************************************************)
(* registry.py                                                             *)
(***************************************************************************)

\* MODEL_REGISTRY, DATASET_REGISTRY, METRIC_REGISTRY, TASK_REGISTRY (by their name=)
RegistryNames == {"model", "dataset", "metric", "task"}

\* keys and classes the register / create / get calls of SpecRegistry draw from
CallKeys == {"keyword-matching", "accuracy"}
CallClasses == {"KeywordMatchingModel", "AccuracyMetric"}

EmptyItems == [k \in {} |-> None]

\* Registry.__init__: self._items = {}
RegistryInit == [r \in RegistryNames |-> EmptyItems]

\* self._items[key] = cls
SetItem(its, key, cls) ==
    [k \in (DOMAIN its) \cup {key} |-> IF k = key THEN cls ELSE its[k]]

\* A register that overwrites: the duplicate check of line 19 is missing.
RegistryRegister_overwrite(its, key, cls) ==
    [outcome |-> "ok", items |-> SetItem(its, key, cls)]

\* Registry.register(key)(cls): the decorator's body
RegistryRegister(its, key, cls) ==
    IF key \in DOMAIN its
    THEN [outcome |-> "ValueError", items |-> its]
    ELSE [outcome |-> "ok", items |-> SetItem(its, key, cls)]

\* A create that falls back to some registered class (or a default) for an unknown key.
RegistryCreate_default(its, key) ==
    IF key \in DOMAIN its
    THEN [outcome |-> "ok", constructed |-> its[key], available |-> {}]
    ELSE [outcome |-> "ok", constructed |-> "Default", available |-> {}]

\* Registry.create(key, *args, **kwargs): the class looked up, then cls(*args, **kwargs).
\* constructed is the class whose constructor was called, None when none was.
RegistryCreate(its, key) ==
    IF key \in DOMAIN its
    THEN [outcome |-> "ok", constructed |-> its[key], available |-> {}]
    ELSE [outcome |-> "KeyError", constructed |-> None, available |-> DOMAIN its]

\* Registry.get(key): the class itself, no constructor call
RegistryGet(its, key) ==
    IF key \in DOMAIN its
    THEN [outcome |-> "ok", returned |-> its[key], available |-> {}]
    ELSE [outcome |-> "KeyError", returned |-> None, available |-> DOMAIN its]

\* Registry.keys()
RegistryKeys(its) == DOMAIN its

NoCall == [op |-> "none", registry |-> None, key |-> None, cls |-> None,
           outcome |-> None, constructed |-> None, returned |-> None]

(***************************************************************************)
(* datasets/jsonl.py and datasets/base.py                                  *)
(***************************************************************************)

\* A field that the JSON object of a line does not have
Absent == "<absent>"
\* payload.get("id", idx) of an object without "id"
NoId == -1
\* A label or an output with its Python type: str(v) is its repr, and two values
\* are == only when type and repr agree (1 != "1").
Lbl(s) == [type |-> "str", repr |-> s]
IntLbl(s) == [type |-> "int", repr |-> s]
\* payload.get("label") of an object without "label", or with null: None
NoLabel == [type |-> "NoneType", repr |-> "None"]
\* str(value)
PyStr(v) == v.repr
\* The file does not exist: open() raises FileNotFoundError
Missing == <<[kind |-> "missing", id |-> NoId, text |-> Absent, label |-> NoLabel]>>

\* One line of the file: blank, not JSON, or a JSON object with (some of) id, text, label.
\* id is NoId or a number; a text in NonStrTexts is a JSON value that is
\* no string.
Blank == [kind |-> "blank", id |-> NoId, text |-> Absent, label |-> NoLabel]
BadJson == [kind |-> "badjson", id |-> NoId, text |-> Absent, label |-> NoLabel]
Rec(id, text, label) == [kind |-> "record", id |-> id, text |-> text, label |-> label]
NonStrTexts == {"#5"}

DigitStr == <<"0", "1", "2", "3", "4", "5", "6", "7", "8", "9">>

\* str(n) of a non-negative int
RECURSIVE Str(_)
Str(n) == IF n < 10 THEN DigitStr[n + 1] ELSE Str(n \div 10) \o DigitStr[(n % 10) + 1]

\* Example(uid, inputs={"text": text}, expected_output)
Example(uid, text, expected) == [uid |-> uid, text |-> text, expected |-> expected]

\* uid = str(payload.get("id", idx))
LineUid(line, idx) == IF line.id = NoId THEN Str(idx) ELSE Str(line.id)

\* What one line does to the generator: "skip" (blank), "raise", or "yield".
\* payload.get("text") or payload.get("input") is None when both are absent.
LineStep(line, idx) ==
    IF line.kind = "blank" THEN [do |-> "skip", error |-> None]
    ELSE IF line.kind = "badjson" THEN [do |-> "raise", error |-> "JSONDecodeError"]
    ELSE IF line.text = Absent THEN [do |-> "raise", error |-> "ValueError:text"]
    ELSE IF line.label = NoLabel THEN [do |-> "raise", error |-> "ValueError:label"]
    ELSE [do |-> "yield", error |-> None]

\* JsonlClassificationDataset._load as a generator run from line idx on: the examples
\* it yields, in order, and the error that ends it (None: the file was exhausted).
RECURSIVE LoadFrom(_, _)
LoadFrom(lines, idx) ==
    IF idx >= Len(lines) THEN [yielded |-> <<>>, error |-> None]
    ELSE LET line == lines[idx + 1]
             step == LineStep(line, idx)
         IN  IF step.do = "raise" THEN [yielded |-> <<>>, error |-> step.error]
             ELSE LET rest == LoadFrom(lines, idx + 1) IN
                  IF step.do = "skip" THEN rest
                  ELSE [yielded |-> <<Example(LineUid(line, idx), line.text, line.label)>>
                                        \o rest.yielded,
                        error |-> rest.error]

\* JsonlClassificationDataset._load: resolved_path.open(...) first
Load(f) ==
    IF f = Missing THEN [yielded |-> <<>>, error |-> "FileNotFoundError"]
    ELSE LoadFrom(f, 0)

\* Dataset.__init__: self._cache = None
NoCache == [isNone |-> TRUE, value |-> <<>>]
Cached(exs) == [isNone |-> FALSE, value |-> exs]

\* An examples() that tests the cache for truth, not for None: an empty cached list
\* is loaded again.
DatasetExamples_falsy(c, f) ==
    IF c.isNone \/ c.value = <<>>
    THEN LET g == Load(f) IN
         IF g.error # None
         THEN [outcome |-> g.error, returned |-> <<>>, cache |-> c, loads |-> 1, done |-> 0]
         ELSE [outcome |-> "ok", returned |-> g.yielded, cache |-> Cached(g.yielded),
               loads |-> 1, done |-> 1]
    ELSE [outcome |-> "ok", returned |-> c.value, cache |-> c, loads |-> 0, done |-> 0]

\* An examples() that keeps what the generator had yielded when it raised: the
\* records before the failing line are cached.
DatasetExamples_partial(c, f) ==
    IF c.isNone
    THEN LET g == Load(f) IN
         IF g.error # None
         THEN [outcome |-> g.error, returned |-> <<>>, cache |-> Cached(g.yielded),
               loads |-> 1, done |-> 0]
         ELSE [outcome |-> "ok", returned |-> g.yielded, cache |-> Cached(g.yielded),
               loads |-> 1, done |-> 1]
    ELSE [outcome |-> "ok", returned |-> c.value, cache |-> c, loads |-> 0, done |-> 0]

\* Dataset.examples(): list(self._load()) runs the generator to its end before the
\* assignment, so an error leaves _cache as it was.
DatasetExamples(c, f) ==
    IF c.isNone
    THEN LET g == Load(f) IN
         IF g.error # None
         THEN [outcome |-> g.error, returned |-> <<>>, cache |-> c, loads |-> 1, done |-> 0]
         ELSE [outcome |-> "ok", returned |-> g.yielded, cache |-> Cached(g.yielded),
               loads |-> 1, done |-> 1]
    ELSE [outcome |-> "ok", returned |-> c.value, cache |-> c, loads |-> 0, done |-> 0]

\* an iteration that hands over the records as they are read, the error coming last
DatasetIter_streaming(c, f) ==
    LET r == DatasetExamples(c, f) IN
    [yielded |-> IF r.outcome = "ok" THEN r.returned ELSE Load(f).yielded,
     error |-> IF r.outcome = "ok" THEN None ELSE r.outcome,
     cache |-> r.cache, loads |-> r.loads, done |-> r.done]

\* Dataset.__iter__(): iter(self.examples()); what a for loop over the dataset is
\* given before the loop ends or the error is raised.
DatasetIter(c, f) ==
    LET r == DatasetExamples(c, f) IN
    [yielded |-> r.returned, error |-> IF r.outcome = "ok" THEN None ELSE r.outcome,
     cache |-> r.cache, loads |-> r.loads, done |-> r.done]

\* Dataset.__len__(): len(self.examples())
DatasetLen(c, f) ==
    LET r == DatasetExamples(c, f) IN
    [outcome |-> r.outcome, returned |-> Len(r.returned), cache |-> r.cache,
     loads |-> r.loads, done |-> r.done]

\* bounds of SpecDataset: lines per file, _load invocations
MaxLines == 2
MaxLoadCalls == 3

\* lines the files of SpecDataset are made of
DsLines ==
    {Blank, BadJson, Rec(NoId, "good", Lbl("positive")), Rec(1, "bad", Lbl("negative")),
     Rec(NoId, "good", NoLabel)}

RECURSIVE SeqsUpTo(_, _)
SeqsUpTo(S, n) ==
    IF n = 0 THEN {<<>>}
    ELSE LET shorter == SeqsUpTo(S, n - 1) IN
         shorter \cup {Append(q, x) : q \in {p \in shorter : Len(p) = n - 1}, x \in S}

DsFiles == SeqsUpTo(DsLines, MaxLines) \cup {Missing}

NoDsCall == [op |-> "none", outcome |-> None, returned |-> <<>>, count |-> 0,
             cachedBefore |-> FALSE, loads |-> 0]

(***************************************************************************)
(* models/base.py, models/keyword.py, models/langchain_rag.py              *)
(***************************************************************************)

\* The value of an attribute or parameter, with its Python type: isinstance(v, int)
\* holds of an int and of a bool (True == 1, False == 0).
PyInt(n) == [type |-> "int", value |-> n]
PyBool(n) == [type |-> "bool", value |-> n]
PyFloat(n) == [type |-> "float", value |-> n]
PyNone == [type |-> "NoneType", value |-> 0]
IsInstanceInt(v) == v.type \in {"int", "bool"}

\* The file at documents_path: there or not, and the documents _load_documents
\* makes of it, in file order. A document is its page_content and the question
\* tokens that occur in the lowercased page_content.
Document(text, words) == [text |-> text, words |-> words]
Documents(exists, docs) == [exists |-> exists, docs |-> docs]
NoDocuments == Documents(FALSE, <<>>)
EmptyDocuments == Documents(TRUE, <<>>)
DemoDocuments == Documents(TRUE, <<Document("good day", {"good"}), Document("fine day", {})>>)

\* The questions asked of the retrieval model, and re.findall(r"\w+", question)
Questions == {"good", "bad"}
QuestionTokens(question) == <<question>>

\* The vector store of a model: for a question, the positions of the documents
\* in the order similarity_search_with_score returns them (all of them: there are
\* no more than retriever_top_k). NoIndex: self._vectorstore is None.
NoIndex == [q \in Questions |-> <<>>]

\* What joblib.load gives SklearnPipelineModel: whether the object has a
\* predict_proba ("yes", "no", or "raises" when calling it raises), and its classes_
\* (hasClasses FALSE when it has none)
Pipeline(proba, hasClasses, classes) ==
    [predict_proba |-> proba, hasClasses |-> hasClasses, classes |-> classes]
NoPipeline == Pipeline("no", FALSE, <<>>)
\* the pipeline scripts/train_sentiment_model.py dumps: TfidfVectorizer and
\* LogisticRegression, with predict_proba and the sorted labels as classes_
TrainedPipeline == Pipeline("yes", TRUE, <<"negative", "positive">>)
\* a pipeline whose estimator has no predict_proba, one whose predict_proba raises
Pipelines ==
    {TrainedPipeline, Pipeline("no", TRUE, <<"negative", "positive">>),
     Pipeline("raises", TRUE, <<"negative", "positive">>), Pipeline("yes", FALSE, <<>>)}

\* KeywordMatchingModel(positive_keywords=["good"], negative_keywords=["bad"]): it
\* sets no batch_size attribute and needs no warmup.
KeywordModel == [cls |-> "KeywordMatchingModel", hasBatchSize |-> FALSE,
                 batch_size |-> PyNone, warmed |-> FALSE,
                 documents |-> NoDocuments, index |-> NoIndex, pipeline |-> NoPipeline]

\* LangChainRagModel(documents_path=..., batch_size=...): self.batch_size = batch_size,
\* self._vectorstore = None, self._pipeline = None
RagModel(bs, documents) ==
    [cls |-> "LangChainRagModel", hasBatchSize |-> TRUE,
     batch_size |-> bs, warmed |-> FALSE, documents |-> documents, index |-> NoIndex,
     pipeline |-> NoPipeline]

\* ModelResponse(uid, output, metadata); metadata is a dict, {} by default
ModelResponse(uid, output, metadata) == [uid |-> uid, output |-> output, metadata |-> metadata]
NoMetadata == [k \in {} |-> None]
NoResponse == ModelResponse(None, NoLabel, NoMetadata)

\* The metadata of KeywordMatchingModel.predict: the keyword that matched and its
\* category (None when the default label is given), self.name
KeywordMetadata(keyword, category) ==
    [matched_keyword |-> keyword, matched_category |-> category,
     model_name |-> "KeywordMatchingModel"]

\* KeywordMatchingModel.predict: the first category of the priority with a keyword
\* in the lowercased text, else default_label; text.lower() of a text that is no
\* string raises AttributeError.
KeywordPredict(ex) ==
    IF ex.text \in NonStrTexts THEN [error |-> "AttributeError", response |-> NoResponse]
    ELSE [error |-> None,
          response |->
              IF ex.text = "good"
              THEN ModelResponse(ex.uid, Lbl("positive"), KeywordMetadata("good", "positive"))
              ELSE IF ex.text = "bad"
              THEN ModelResponse(ex.uid, Lbl("negative"), KeywordMetadata("bad", "negative"))
              ELSE ModelResponse(ex.uid, Lbl("neutral"), KeywordMetadata(None, None))]

\* ContextualAnswerLLM._select_best_context: without a question, the first context;
\* else the score of a context is the number of question tokens in it and the first
\* context with the highest score is the answer.
ContextScore(doc, question) ==
    LET tokens == QuestionTokens(question) IN
    Cardinality({i \in 1..Len(tokens) : tokens[i] \in doc.words})

SelectBestContext(contexts, question) ==
    IF question = "" THEN contexts[1].text ELSE
    LET best == CHOOSE i \in 1..Len(contexts) :
                    /\ \A j \in 1..Len(contexts) :
                           ContextScore(contexts[j], question) <= ContextScore(contexts[i], question)
                    /\ \A j \in 1..(i - 1) :
                           ContextScore(contexts[j], question) < ContextScore(contexts[i], question)
    IN  contexts[best].text

\* ContextualAnswerLLM._call: the question it parses out of the prompt. With the
\* prompt template of the model, "...Context:\n{context}\n\nQuestion: {question}\nAnswer:",
\* the prompt is split at "\n\nQuestion:" and what follows holds no "Question:" any
\* more, so the question stays "".
PromptQuestion(question) == ""

\* self._pipeline.invoke({"question": question}): the documents in the order the
\* vector store retrieves them for the question, then the answer the LLM selects
\* among them for the question it parses out of the prompt
PipelineInvoke(m, question) ==
    LET order == m.index[question]
        contexts == [i \in 1..Len(order) |-> m.documents.docs[order[i]]]
    IN  SelectBestContext(contexts, PromptQuestion(question))

\* _build_metadata for an example without context_ids: self.name, the retrieved
\* documents in retrieval order, each with its id (its position in the file, from 0),
\* its score and its text, and the first score as confidence. A score is
\* 1 / (1 + distance) of the document from the question in the vector store; it is
\* kept as the pair it is the score of.
RagMetadata(m, question) ==
    LET order == m.index[question]
        retrieved == [i \in 1..Len(order) |->
                         [id |-> Str(order[i] - 1),
                          score |-> [question |-> question, id |-> Str(order[i] - 1)],
                          text |-> m.documents.docs[order[i]].text]]
    IN  [model_name |-> "LangChainRagModel", retrieved_documents |-> retrieved,
         confidence |-> retrieved[1].score]

\* LangChainRagModel.predict: RuntimeError while self._pipeline is None; ValueError
\* from _extract_question when the text is no string; else the pipeline's
\* answer and the metadata of the retrieval under the example's uid.
RagPredict(m, ex) ==
    IF ~m.warmed THEN [error |-> "RuntimeError", response |-> NoResponse]
    ELSE IF ex.text \in NonStrTexts THEN [error |-> "ValueError:question", response |-> NoResponse]
    ELSE [error |-> None,
          response |-> ModelResponse(ex.uid, Lbl(PipelineInvoke(m, ex.text)),
                                     RagMetadata(m, ex.text))]

\* SklearnPipelineModel(artifact_path=...), the artifact being there:
\* self.pipeline = joblib.load(self.artifact_path)
SklearnModel(pipeline) ==
    [cls |-> "SklearnPipelineModel", hasBatchSize |-> FALSE,
     batch_size |-> PyNone, warmed |-> FALSE,
     documents |-> NoDocuments, index |-> NoIndex, pipeline |-> pipeline]

\* The metadata of SklearnPipelineModel.predict: self.name and the artifact path;
\* when the pipeline has a predict_proba that does not raise, and classes, also
\* probabilities, the probability of each class for the text. A probability is
\* kept as the text and the class it is the probability of.
SklearnMetadata(pipeline, text) ==
    IF pipeline.predict_proba = "yes" /\ pipeline.hasClasses
    THEN [model_name |-> "SklearnPipelineModel", artifact_path |-> "artifact",
          probabilities |->
              [l \in {pipeline.classes[i] : i \in 1..Len(pipeline.classes)} |->
                  [text |-> text, label |-> l]]]
    ELSE [model_name |-> "SklearnPipelineModel", artifact_path |-> "artifact"]

\* SklearnPipelineModel.predict: example.text() raises KeyError for a text that is no
\* string; the output is what the loaded pipeline predicts for the text.
SklearnPredict(m, ex) ==
    IF ex.text \in NonStrTexts THEN [error |-> "KeyError:text", response |-> NoResponse]
    ELSE [error |-> None,
          response |-> ModelResponse(ex.uid,
                                     IF ex.text = "good" THEN Lbl("positive")
                                     ELSE Lbl("negative"),
                                     SklearnMetadata(m.pipeline, ex.text))]

\* model.predict(example)
Predict(m, ex) ==
    IF m.cls = "KeywordMatchingModel" THEN KeywordPredict(ex)
    ELSE IF m.cls = "SklearnPipelineModel" THEN SklearnPredict(m, ex)
    ELSE RagPredict(m, ex)

\* The orders in which a vector store over docs can return them. The slot of a
\* token in BagOfWordsEmbeddings is hash(token) % dimension, and hash() of a str
\* depends on the hash seed of the process: any order can come out.
Orders(n) ==
    {o \in [1..n -> 1..n] : \A i, j \in 1..n : o[i] = o[j] => i = j}
Indexes(docs) == [Questions -> Orders(Len(docs))]

\* model.warmup(examples): the base class does nothing. LangChainRagModel loads its
\* documents (FileNotFoundError when the file is not there, ValueError when it
\* holds no document; the model is then left as it was), builds the vector store,
\* index being what the hash seed of the process makes of it, and the pipeline.
ModelWarmup(m, index) ==
    IF m.cls # "LangChainRagModel" THEN [error |-> None, model |-> m]
    ELSE IF ~m.documents.exists THEN [error |-> "FileNotFoundError", model |-> m]
    ELSE IF m.documents.docs = <<>> THEN [error |-> "ValueError", model |-> m]
    ELSE [error |-> None, model |-> [m EXCEPT !.warmed = TRUE, !.index = index]]

\* a call made on the model, with the examples it was given
Call(fn, exs) == [fn |-> fn, arg |-> exs]

RECURSIVE Reverse(_)
Reverse(q) == IF q = <<>> THEN <<>> ELSE Append(Reverse(Tail(q)), Head(q))

\* [self.predict(example) for example in examples]: in order, ended by the first error
RECURSIVE PredictEach(_, _)
PredictEach(m, exs) ==
    IF exs = <<>> THEN [error |-> None, responses |-> <<>>, calls |-> <<>>]
    ELSE LET r == Predict(m, Head(exs))
             c == Call("predict", <<Head(exs)>>)
         IN  IF r.error # None THEN [error |-> r.error, responses |-> <<>>, calls |-> <<c>>]
             ELSE LET rest == PredictEach(m, Tail(exs)) IN
                  [error |-> rest.error,
                   responses |-> IF rest.error # None THEN <<>>
                                 ELSE <<r.response>> \o rest.responses,
                   calls |-> <<c>> \o rest.calls]

\* A predict_batch that walks the examples from the last to the first.
PredictBatch_reversed(m, exs) == PredictEach(m, Reverse(exs))

\* ModelAdapter.predict_batch (no adapter of the repository overrides it)
PredictBatch(m, exs) == PredictEach(m, exs)

(***************************************************************************)
(* tasks/classification.py, tasks/retrieval.py                             *)
(***************************************************************************)

\* The result of a Task.run: the error raised (None: it returned), the responses
\* returned, and the calls made on the model, in order.
RunResult(error, responses, calls) ==
    [error |-> error, responses |-> IF error = None THEN responses ELSE <<>>, calls |-> calls]

\* for example in self.dataset: ... self.model.predict(example), over what the
\* iteration yields; the iteration's error, if any, is raised after that.
SequentialRun(m, it) ==
    LET r == PredictEach(m, it.yielded) IN
    IF r.error # None THEN RunResult(r.error, <<>>, r.calls)
    ELSE RunResult(it.error, r.responses, r.calls)

\* TextClassificationTask.run
TextClassificationRun(m, it) == SequentialRun(m, it)

\* getattr(self.model, "batch_size", None)
BatchSizeOf(m) == IF m.hasBatchSize THEN m.batch_size ELSE PyNone

\* not isinstance(batch_size, int) or batch_size <= 1
IsSequential(bs) == ~IsInstanceInt(bs) \/ bs.value <= 1

\* self.model.predict_batch(batch) and responses.extend(...)
Flush(m, batch, acc) ==
    LET r == PredictBatch(m, batch) IN
    [error |-> r.error,
     responses |-> acc.responses \o r.responses,
     calls |-> acc.calls \o <<Call("predict_batch", batch)>> \o r.calls]

\* The loop of the batched path from example i on, batch being the examples
\* accumulated so far; then the final partial batch.
RECURSIVE BatchLoop(_, _, _, _, _, _)
BatchLoop(m, bs, it, i, batch, acc) ==
    IF i > Len(it.yielded)
    THEN IF it.error # None THEN RunResult(it.error, <<>>, acc.calls)
         ELSE IF batch # <<>>
              THEN LET f == Flush(m, batch, acc) IN RunResult(f.error, f.responses, f.calls)
              ELSE RunResult(None, acc.responses, acc.calls)
    ELSE LET b == Append(batch, it.yielded[i]) IN
         IF Len(b) >= bs
         THEN LET f == Flush(m, b, acc) IN
              IF f.error # None THEN RunResult(f.error, <<>>, f.calls)
              ELSE BatchLoop(m, bs, it, i + 1, <<>>, f)
         ELSE BatchLoop(m, bs, it, i + 1, b, acc)

\* The batched path with "if len(batch) > batch_size" for its flush test.
RECURSIVE BatchLoop_late(_, _, _, _, _, _)
BatchLoop_late(m, bs, it, i, batch, acc) ==
    IF i > Len(it.yielded)
    THEN IF it.error # None THEN RunResult(it.error, <<>>, acc.calls)
         ELSE IF batch # <<>>
              THEN LET f == Flush(m, batch, acc) IN RunResult(f.error, f.responses, f.calls)
              ELSE RunResult(None, acc.responses, acc.calls)
    ELSE LET b == Append(batch, it.yielded[i]) IN
         IF Len(b) > bs
         THEN LET f == Flush(m, b, acc) IN
              IF f.error # None THEN RunResult(f.error, <<>>, f.calls)
              ELSE BatchLoop_late(m, bs, it, i + 1, <<>>, f)
         ELSE BatchLoop_late(m, bs, it, i + 1, b, acc)

\* The batched path without its final "if batch:" flush.
RECURSIVE BatchLoop_nofinal(_, _, _, _, _, _)
BatchLoop_nofinal(m, bs, it, i, batch, acc) ==
    IF i > Len(it.yielded)
    THEN RunResult(it.error, acc.responses, acc.calls)
    ELSE LET b == Append(batch, it.yielded[i]) IN
         IF Len(b) >= bs
         THEN LET f == Flush(m, b, acc) IN
              IF f.error # None THEN RunResult(f.error, <<>>, f.calls)
              ELSE BatchLoop_nofinal(m, bs, it, i + 1, <<>>, f)
         ELSE BatchLoop_nofinal(m, bs, it, i + 1, b, acc)

NoCalls == [error |-> None, responses |-> <<>>, calls |-> <<>>]

RetrievalRun_nofinal(m, it) ==
    LET bs == BatchSizeOf(m) IN
    IF IsSequential(bs) THEN SequentialRun(m, it)
    ELSE BatchLoop_nofinal(m, bs.value, it, 1, <<>>, NoCalls)

RetrievalRun_late(m, it) ==
    LET bs == BatchSizeOf(m) IN
    IF IsSequential(bs) THEN SequentialRun(m, it)
    ELSE BatchLoop_late(m, bs.value, it, 1, <<>>, NoCalls)

\* RetrievalQuestionAnsweringTask.run
RetrievalRun(m, it) ==
    LET bs == BatchSizeOf(m) IN
    IF IsSequential(bs) THEN SequentialRun(m, it)
    ELSE BatchLoop(m, bs.value, it, 1, <<>>, NoCalls)

\* task.run() of a task of class kind
TaskRunOf(kind, m, it) ==
    IF kind = "RetrievalQuestionAnsweringTask" THEN RetrievalRun(m, it)
    ELSE TextClassificationRun(m, it)

(***************************************************************************)
(* metrics/base.py, metrics/classification.py                              *)
(***************************************************************************)

\* A score: the fraction num/den in lowest terms (the code computes floats).
RECURSIVE Gcd(_, _)
Gcd(a, b) == IF b = 0 THEN a ELSE Gcd(b, a % b)
Frac(n, d) == LET g == Gcd(n, d) IN [num |-> n \div g, den |-> d \div g]
Zero == Frac(0, 1)
One == Frac(1, 1)
FAdd(x, y) == Frac(x.num * y.den + y.num * x.den, x.den * y.den)
FMul(x, y) == Frac(x.num * y.num, x.den * y.den)
\* x / y for y # 0
FDiv(x, y) == Frac(x.num * y.den, x.den * y.num)

\* _safe_div
SafeDiv(n, d) == IF d # 0 THEN Frac(n, d) ELSE Zero

RECURSIVE FSum(_, _)
FSum(S, f) ==
    IF S = {} THEN Zero
    ELSE LET x == CHOOSE y \in S : TRUE IN FAdd(f[x], FSum(S \ {x}, f))

RECURSIVE NSum(_, _)
NSum(S, f) ==
    IF S = {} THEN 0
    ELSE LET x == CHOOSE y \in S : TRUE IN f[x] + NSum(S \ {x}, f)

Min(a, b) == IF a <= b THEN a ELSE b

\* zip(examples, responses): the positions both sequences have
Zip(exs, rs) == 1..Min(Len(exs), Len(rs))

\* _gather_classification_stats: labels (as a set; the code sorts it), tp, fp, fn,
\* support, confusion and totals over the zipped pairs, gold and pred stringified.
GatherStats(exs, rs) ==
    LET pairs == Zip(exs, rs)
        gold(i) == PyStr(exs[i].expected)
        pred(i) == PyStr(rs[i].output)
        labels == {gold(i) : i \in pairs} \cup {pred(i) : i \in pairs}
        tp == [l \in labels |-> Cardinality({i \in pairs : gold(i) = pred(i) /\ gold(i) = l})]
        fp == [l \in labels |-> Cardinality({i \in pairs : gold(i) # pred(i) /\ pred(i) = l})]
        fn == [l \in labels |-> Cardinality({i \in pairs : gold(i) # pred(i) /\ gold(i) = l})]
    IN  [labels |-> labels, tp |-> tp, fp |-> fp, fn |-> fn,
         support |-> [l \in labels |-> Cardinality({i \in pairs : gold(i) = l})],
         confusion |-> [g \in labels |-> [q \in labels |->
                           Cardinality({i \in pairs : gold(i) = g /\ pred(i) = q})]],
         totals |-> [tp |-> NSum(labels, tp), fp |-> NSum(labels, fp),
                     fn |-> NSum(labels, fn)]]

\* 2 * p * r / (p + r), 0.0 when p + r == 0
HarmonicMean(pr, rc) ==
    IF FAdd(pr, rc) = Zero THEN Zero
    ELSE FDiv(FMul(Frac(2, 1), FMul(pr, rc)), FAdd(pr, rc))

\* _aggregate_scores with a macro average that sums the per-label scores and does not
\* divide by the number of labels
AggregateScores_sum(perLabel, support, average, totals, score) ==
    LET labels == DOMAIN perLabel IN
    IF labels = {} THEN [error |-> None, value |-> Zero]
    ELSE IF average = "macro"
    THEN [error |-> None,
          value |-> FSum(labels, perLabel)]
    ELSE IF average = "weighted"
    THEN LET total == NSum(labels, support) IN
         IF total = 0 THEN [error |-> None, value |-> Zero]
         ELSE [error |-> None,
               value |-> FDiv(FSum(labels, [l \in labels |->
                                       FMul(perLabel[l], Frac(support[l], 1))]),
                              Frac(total, 1))]
    ELSE IF average = "micro"
    THEN LET pm == SafeDiv(totals.tp, totals.tp + totals.fp)
             rm == SafeDiv(totals.tp, totals.tp + totals.fn)
         IN  IF score = "precision" THEN [error |-> None, value |-> pm]
             ELSE IF score = "recall" THEN [error |-> None, value |-> rm]
             ELSE IF score = "f1" THEN [error |-> None, value |-> HarmonicMean(pm, rm)]
             ELSE [error |-> "ValueError:score", value |-> Zero]
    ELSE [error |-> "ValueError:average", value |-> Zero]

\* _aggregate_scores: 0.0 for no labels, before the average name is looked at
AggregateScores(perLabel, support, average, totals, score) ==
    LET labels == DOMAIN perLabel IN
    IF labels = {} THEN [error |-> None, value |-> Zero]
    ELSE IF average = "macro"
    THEN [error |-> None,
          value |-> FDiv(FSum(labels, perLabel), Frac(Cardinality(labels), 1))]
    ELSE IF average = "weighted"
    THEN LET total == NSum(labels, support) IN
         IF total = 0 THEN [error |-> None, value |-> Zero]
         ELSE [error |-> None,
               value |-> FDiv(FSum(labels, [l \in labels |->
                                       FMul(perLabel[l], Frac(support[l], 1))]),
                              Frac(total, 1))]
    ELSE IF average = "micro"
    THEN LET pm == SafeDiv(totals.tp, totals.tp + totals.fp)
             rm == SafeDiv(totals.tp, totals.tp + totals.fn)
         IN  IF score = "precision" THEN [error |-> None, value |-> pm]
             ELSE IF score = "recall" THEN [error |-> None, value |-> rm]
             ELSE IF score = "f1" THEN [error |-> None, value |-> HarmonicMean(pm, rm)]
             ELSE [error |-> "ValueError:score", value |-> Zero]
    ELSE [error |-> "ValueError:average", value |-> Zero]

\* Metric.__init__: self.name = name or self.__class__.__name__.lower()
MetricName(cls, name) ==
    IF name # None /\ name # "" THEN name
    ELSE CASE cls = "AccuracyMetric" -> "accuracymetric"
           [] cls = "PrecisionMetric" -> "precisionmetric"
           [] cls = "RecallMetric" -> "recallmetric"
           [] cls = "F1ScoreMetric" -> "f1scoremetric"
           [] cls = "ConfusionMatrixMetric" -> "confusionmatrixmetric"
           [] cls = "LabelDistributionMetric" -> "labeldistributionmetric"
           [] cls = "RougeLMetric" -> "rougelmetric"
           [] cls = "BleuMetric" -> "bleumetric"
           [] cls = "ContextPrecisionMetric" -> "contextprecisionmetric"
           [] OTHER -> "metric"

\* A metric instance: AccuracyMetric(name=), PrecisionMetric(average=, name=), ...
\* The constructors store average as given.
Metric(cls, name, average) == [cls |-> cls, name |-> MetricName(cls, name), average |-> average]

\* MetricResult(name, value, details): of the details, correct and total (accuracy),
\* labels and matrix (confusion matrix)
MetricResult(name, value, correct, total) ==
    [name |-> name, value |-> value, correct |-> correct, total |-> total,
     labels |-> <<>>, matrix |-> <<>>]

\* AccuracyMetric.compute: total = len(responses), == on the values themselves
AccuracyCompute(mt, exs, rs) ==
    LET correct == Cardinality({i \in Zip(exs, rs) : exs[i].expected = rs[i].output})
        total == Len(rs)
    IN  [error |-> None,
         result |-> MetricResult(mt.name, IF total # 0 THEN Frac(correct, total) ELSE Zero,
                                 correct, total)]

\* The score of PrecisionMetric, RecallMetric, F1ScoreMetric from the statistics
\* _gather_stats returned: per-label scores, then _aggregate_scores
ScoreOf(mt, st) ==
    LET prec == [l \in st.labels |-> SafeDiv(st.tp[l], st.tp[l] + st.fp[l])]
        rec == [l \in st.labels |-> SafeDiv(st.tp[l], st.tp[l] + st.fn[l])]
        score == CASE mt.cls = "PrecisionMetric" -> "precision"
                   [] mt.cls = "RecallMetric" -> "recall"
                   [] OTHER -> "f1"
        perLabel == CASE score = "precision" -> prec
                      [] score = "recall" -> rec
                      [] OTHER -> [l \in st.labels |-> HarmonicMean(prec[l], rec[l])]
        agg == AggregateScores(perLabel, st.support, mt.average, st.totals, score)
    IN  [error |-> agg.error, result |-> MetricResult(mt.name, agg.value, 0, 0)]

\* PrecisionMetric.compute, RecallMetric.compute, F1ScoreMetric.compute
ScoreCompute(mt, exs, rs) == ScoreOf(mt, GatherStats(exs, rs))

\* The strings the labels of the model are made of, in the order sorted() gives them
SortedStrings == <<"0", "1", "I'm not sure.", "negative", "neutral", "positive">>

\* sorted(labels_set), for labels among SortedStrings
Sorted(S) == SelectSeq(SortedStrings, LAMBDA x : x \in S)

\* ConfusionMatrixMetric.compute: labels sorted, matrix[i][j] the number of pairs with
\* gold labels[i] and prediction labels[j], value 1.0
ConfusionMatrixCompute(mt, exs, rs) ==
    LET st == GatherStats(exs, rs)
        labels == Sorted(st.labels)
        matrix == [i \in 1..Len(labels) |->
                      [j \in 1..Len(labels) |-> st.confusion[labels[i]][labels[j]]]]
    IN  [error |-> None,
         result |-> [MetricResult(mt.name, One, 0, 0) EXCEPT !.labels = labels,
                                                            !.matrix = matrix]]

(***************************************************************************)
(* metrics/generation.py: BLEU                                             *)
(***************************************************************************)

\* _tokenize: text.lower().split(), for the texts of the model
Tokenize(text) ==
    CASE text = "" -> <<>>
      [] text = "the cat sat" -> <<"the", "cat", "sat">>
      [] text = "The Cat Sat" -> <<"the", "cat", "sat">>
      [] text = "the cat sat on the mat" -> <<"the", "cat", "sat", "on", "the", "mat">>
      [] OTHER -> <<text>>

\* BleuMetric.__init__: max_n = 4 and smoothing = 1e-9 = 1 / SmoothingDen by default
BleuMaxN == 4
SmoothingDen == 1000000000

\* tuple(tokens[i : i + n]) for i in range(len(tokens) - n + 1)
NGrams(tokens, n) ==
    IF Len(tokens) < n THEN <<>>
    ELSE [i \in 1..(Len(tokens) - n + 1) |-> SubSeq(tokens, i, i + n - 1)]

\* Counter(ngrams)[g]
CountOf(grams, g) == Cardinality({i \in 1..Len(grams) : grams[i] = g})

\* _modified_precision: clipped n-gram matches over candidate n-grams, 0.0 for a
\* candidate shorter than n
ModifiedPrecision(candidate, reference, n) ==
    IF Len(candidate) < n THEN Zero
    ELSE LET cg == NGrams(candidate, n)
             rg == NGrams(reference, n)
             distinct == {cg[i] : i \in 1..Len(cg)}
             clipped == [g \in distinct |-> Min(CountOf(cg, g), CountOf(rg, g))]
         IN  IF Len(cg) = 0 THEN Zero ELSE Frac(NSum(distinct, clipped), Len(cg))

\* _brevity_penalty, as the x of exp(x): 1.0 = exp(0), else exp(1 - reference_len /
\* candidate_len); called for candidates that are not empty
BrevityExponent(candidateLen, referenceLen) ==
    IF referenceLen = 0 \/ candidateLen > referenceLen THEN Zero
    ELSE Frac(candidateLen - referenceLen, candidateLen)

\* the precisions of orders n..max_n, each replaced by the smoothing when it is <= 0
RECURSIVE SmoothedPrecisions(_, _, _)
SmoothedPrecisions(candidate, reference, n) ==
    IF n > BleuMaxN THEN <<>>
    ELSE LET pr == ModifiedPrecision(candidate, reference, n) IN
         <<IF pr.num <= 0 THEN Frac(1, SmoothingDen) ELSE pr>>
             \o SmoothedPrecisions(candidate, reference, n + 1)

\* The score of one example: 0.0 for an empty candidate, else
\* bp * exp(sum(log(p) for p in precisions) / len(precisions)), kept as its terms:
\* the x of bp = exp(x) and the precisions of the geometric mean.
BleuScore(expected, output) ==
    LET reference == Tokenize(PyStr(expected))
        candidate == Tokenize(PyStr(output))
    IN  IF candidate = <<>>
        THEN [zero |-> TRUE, bp |-> Zero, precisions |-> <<>>]
        ELSE [zero |-> FALSE, bp |-> BrevityExponent(Len(candidate), Len(reference)),
              precisions |-> SmoothedPrecisions(candidate, reference, 1)]

\* the float of a score is exactly 1.0: exp(0.0) times the geometric mean of ones
ScoreIsOne(sc) ==
    /\ ~sc.zero
    /\ sc.bp = Zero
    /\ \A i \in 1..Len(sc.precisions) : sc.precisions[i] = One

\* per_example[example.uid] = score over the zipped pairs: a later pair replaces an
\* earlier one of the same uid
BleuPerExample(exs, rs) ==
    LET pairs == Zip(exs, rs)
        uids == {exs[i].uid : i \in pairs}
        last(u) == CHOOSE i \in pairs : exs[i].uid = u /\ \A j \in pairs : exs[j].uid = u => j <= i
    IN  [u \in uids |-> BleuScore(exs[last(u)].expected, rs[last(u)].output)]

\* sum(per_example.values()) / len(per_example), 0.0 for no example: the mean is 1.0
\* exactly when every score is, and it is kept as the scores it is the mean of
BleuCompute(mt, exs, rs) ==
    LET per == BleuPerExample(exs, rs) IN
    [error |-> None,
     result |-> [MetricResult(mt.name, Zero, 0, 0) EXCEPT
                    !.value = [mean_of |-> per,
                               is_one |-> DOMAIN per # {} /\ \A u \in DOMAIN per : ScoreIsOne(per[u])]]]

(***************************************************************************)
(* metrics/generation.py: ROUGE-L                                          *)
(***************************************************************************)

Max(a, b) == IF a >= b THEN a ELSE b

\* lengths[i][j] of the table _lcs_length fills: row 0 and column 0 are 0,
\* lengths[i - 1][j - 1] + 1 for equal tokens and the larger neighbour otherwise
RECURSIVE LcsTable(_, _, _, _)
LcsTable(reference, hypothesis, i, j) ==
    IF i = 0 \/ j = 0 THEN 0
    ELSE IF reference[i] = hypothesis[j]
    THEN LcsTable(reference, hypothesis, i - 1, j - 1) + 1
    ELSE Max(LcsTable(reference, hypothesis, i - 1, j),
             LcsTable(reference, hypothesis, i, j - 1))

\* an _lcs_length that counts the distinct tokens the two sequences share
LcsLength_distinct(reference, hypothesis) ==
    Cardinality({reference[i] : i \in 1..Len(reference)}
                    \cap {hypothesis[j] : j \in 1..Len(hypothesis)})

\* _lcs_length: 0 for an empty sequence, else lengths[-1][-1]
LcsLength(reference, hypothesis) ==
    IF reference = <<>> \/ hypothesis = <<>> THEN 0
    ELSE LcsTable(reference, hypothesis, Len(reference), Len(hypothesis))

\* the score of one example: 1.0 when both token lists are empty, else the F1 of
\* lcs / len(hypothesis) and lcs / len(reference), 0.0 when both are 0
RougeScore(expected, output) ==
    LET reference == Tokenize(PyStr(expected))
        hypothesis == Tokenize(PyStr(output))
    IN  IF reference = <<>> /\ hypothesis = <<>> THEN One
        ELSE LET lcs == LcsLength(reference, hypothesis)
                 precision == IF hypothesis # <<>> THEN Frac(lcs, Len(hypothesis)) ELSE Zero
                 recall == IF reference # <<>> THEN Frac(lcs, Len(reference)) ELSE Zero
             IN  IF FAdd(precision, recall).num > 0
                 THEN FDiv(FMul(Frac(2, 1), FMul(precision, recall)), FAdd(precision, recall))
                 ELSE Zero

\* per_example[example.uid] = score over the zipped pairs
RougePerExample(exs, rs) ==
    LET pairs == Zip(exs, rs)
        uids == {exs[i].uid : i \in pairs}
        last(u) == CHOOSE i \in pairs : exs[i].uid = u /\ \A j \in pairs : exs[j].uid = u => j <= i
    IN  [u \in uids |-> RougeScore(exs[last(u)].expected, rs[last(u)].output)]

\* RougeLMetric.compute: sum(per_example.values()) / len(per_example), 0.0 for no
\* example
RougeLCompute(mt, exs, rs) ==
    LET per == RougePerExample(exs, rs) IN
    [error |-> None,
     result |-> [MetricResult(mt.name, Zero, 0, 0) EXCEPT
                    !.value = IF DOMAIN per = {} THEN Zero
                              ELSE FDiv(FSum(DOMAIN per, per),
                                        Frac(Cardinality(DOMAIN per), 1))]]

\* metric.compute(examples=..., responses=...)
MetricCompute(mt, exs, rs) ==
    IF mt.cls = "AccuracyMetric" THEN AccuracyCompute(mt, exs, rs)
    ELSE IF mt.cls = "ConfusionMatrixMetric" THEN ConfusionMatrixCompute(mt, exs, rs)
    ELSE IF mt.cls = "BleuMetric" THEN BleuCompute(mt, exs, rs)
    ELSE IF mt.cls = "RougeLMetric" THEN RougeLCompute(mt, exs, rs)
    ELSE ScoreCompute(mt, exs, rs)

(***************************************************************************)
(* __init__.py and the register decorators: the registries after import    *)
(***************************************************************************)

Reg(r, key, cls) == [registry |-> r, key |-> key, cls |-> cls]

\* the @REGISTRY.register(key) decorators of a module, in file order
ModuleRegs(mod) ==
    CASE mod = "datasets.jsonl" -> <<Reg("dataset", "jsonl-classification", "JsonlClassificationDataset")>>
      [] mod = "datasets.jsonl_rag" -> <<Reg("dataset", "jsonl-rag", "JsonlRagDataset")>>
      [] mod = "metrics.classification" ->
            <<Reg("metric", "accuracy", "AccuracyMetric"),
              Reg("metric", "precision", "PrecisionMetric"),
              Reg("metric", "recall", "RecallMetric"),
              Reg("metric", "f1", "F1ScoreMetric"),
              Reg("metric", "confusion-matrix", "ConfusionMatrixMetric"),
              Reg("metric", "label-distribution", "LabelDistributionMetric")>>
      [] mod = "metrics.generation" ->
            <<Reg("metric", "rouge-l", "RougeLMetric"),
              Reg("metric", "bleu", "BleuMetric"),
              Reg("metric", "context-precision", "ContextPrecisionMetric")>>
      [] mod = "models.keyword" -> <<Reg("model", "keyword-matching", "KeywordMatchingModel")>>
      [] mod = "models.sklearn" -> <<Reg("model", "sklearn-pipeline", "SklearnPipelineModel")>>
      [] mod = "models.langchain_rag" -> <<Reg("model", "langchain-rag", "LangChainRagModel")>>
      [] mod = "models.mcp" -> <<Reg("model", "mcp", "MCPModelAdapter")>>
      [] mod = "tasks.classification" -> <<Reg("task", "text-classification", "TextClassificationTask")>>
      [] mod = "tasks.retrieval" -> <<Reg("task", "retrieval-qa", "RetrievalQuestionAnsweringTask")>>

\* the modules eval_agent/__init__.py imports for their registrations, in order
InitModules ==
    <<"datasets.jsonl", "metrics.classification", "models.keyword", "models.sklearn",
      "tasks.classification">>

\* the modules with registrations that __init__.py does not import
OtherModules ==
    <<"datasets.jsonl_rag", "metrics.generation", "models.langchain_rag", "models.mcp",
      "tasks.retrieval">>

RECURSIVE ApplyRegs(_, _)
ApplyRegs(its, regs) ==
    IF regs = <<>> THEN its
    ELSE LET g == Head(regs) IN
         ApplyRegs([its EXCEPT ![g.registry] = RegistryRegister(its[g.registry], g.key, g.cls).items],
                   Tail(regs))

\* importing the modules mods, in order, into registries its
RECURSIVE Import(_, _)
Import(its, mods) ==
    IF mods = <<>> THEN its ELSE Import(ApplyRegs(its, ModuleRegs(Head(mods))), Tail(mods))

\* the registries once "import eval_agent" has completed
StartupItems == Import(RegistryInit, InitModules)
\* the registries of a process that has imported the other modules as well
AllItems == Import(StartupItems, OtherModules)

(***************************************************************************)
(* config.py, runner.py                                                    *)
(***************************************************************************)

\* MetricConfig(type, name, parameters): average is "unset" when parameters has none
MetricConfig(type, name, average) == [type |-> type, name |-> name, average |-> average]
Unset == "<unset>"

\* cls(name=config.name, **config.parameters) of a metric class: precision, recall and
\* f1 take average (default "macro") and store it; the other classes take no average
MetricConstruct(cls, mc) ==
    IF cls \notin {"PrecisionMetric", "RecallMetric", "F1ScoreMetric"}
    THEN IF mc.average # Unset THEN [error |-> "TypeError", metric |-> Metric(cls, mc.name, Unset)]
         ELSE [error |-> None, metric |-> Metric(cls, mc.name, Unset)]
    ELSE [error |-> None,
          metric |-> Metric(cls, mc.name, IF mc.average = Unset THEN "macro" ELSE mc.average)]

\* cls(**config.model.parameters) of a model class
ModelConstruct(cls, params) ==
    CASE cls = "KeywordMatchingModel" -> [error |-> None, model |-> KeywordModel]
      [] cls = "SklearnPipelineModel" ->
            IF params.artifact = "missing"
            THEN [error |-> "FileNotFoundError:artifact", model |-> SklearnModel(NoPipeline)]
            ELSE [error |-> None, model |-> SklearnModel(TrainedPipeline)]
      [] OTHER -> [error |-> None, model |-> RagModel(params.batch_size, params.documents)]

\* what run does with an exception raised by a component at a stage: run has no
\* try/except, so the exception leaves run.
OnRaise_suppress(stage, error) ==
    IF stage = "compute_metrics" THEN [handled |-> TRUE, raised |-> None]
    ELSE [handled |-> FALSE, raised |-> error]

OnRaise(stage, error) == [handled |-> FALSE, raised |-> error]

\* run with completed_time taken before task.run()
Stages_early ==
    <<"create_dataset", "create_model", "create_task", "build_metrics", "start_time",
      "completed_time", "task_run", "compute_metrics", "build_predictions", "persist",
      "done">>

\* the statements of run, in order
Stages ==
    <<"create_dataset", "create_model", "create_task", "build_metrics", "start_time",
      "task_run", "completed_time", "compute_metrics", "build_predictions", "persist",
      "done">>

\* the statement after stage
NextPc(stage) ==
    LET i == CHOOSE k \in 1..Len(Stages) : Stages[k] = stage IN Stages[i + 1]

Event(ev, arg) == [ev |-> ev, arg |-> arg]

\* the calls a task run made on the model, as events
RECURSIVE CallEvents(_)
CallEvents(calls) ==
    IF calls = <<>> THEN <<>>
    ELSE <<Event(Head(calls).fn, Head(calls).arg[1].uid)>> \o CallEvents(Tail(calls))

\* _build_metrics: METRIC_REGISTRY.create(config.type, name=config.name, **parameters)
\* for each config in order, left at the first one that raises
RECURSIVE BuildMetrics(_, _)
BuildMetrics(its, mcs) ==
    IF mcs = <<>> THEN [error |-> None, metrics |-> <<>>, events |-> <<>>]
    ELSE LET mc == Head(mcs)
             r == RegistryCreate(its, mc.type)
             e == Event("create:metric", mc.type)
         IN  IF r.outcome # "ok" THEN [error |-> r.outcome, metrics |-> <<>>, events |-> <<e>>]
             ELSE LET c == MetricConstruct(r.constructed, mc) IN
                  IF c.error # None THEN [error |-> c.error, metrics |-> <<>>, events |-> <<e>>]
                  ELSE LET rest == BuildMetrics(its, Tail(mcs)) IN
                       [error |-> rest.error, metrics |-> <<c.metric>> \o rest.metrics,
                        events |-> <<e>> \o rest.events]

\* a compute loop that appends the results from the last metric to the first
RECURSIVE ComputeAll_reversed(_, _, _)
ComputeAll_reversed(mts, exs, rs) ==
    IF mts = <<>> THEN [error |-> None, metrics |-> <<>>, events |-> <<>>]
    ELSE LET r == MetricCompute(Head(mts), exs, rs)
             e == Event("compute", Head(mts).name)
         IN  IF r.error # None THEN [error |-> r.error, metrics |-> <<>>, events |-> <<e>>]
             ELSE LET rest == ComputeAll_reversed(Tail(mts), exs, rs) IN
                  [error |-> rest.error, metrics |-> rest.metrics \o <<r.result>>,
                   events |-> <<e>> \o rest.events]

\* for metric in metric_instances: metrics.append(metric.compute(examples=
\* dataset.examples(), responses=responses)), left at the first compute that raises
RECURSIVE ComputeAll(_, _, _)
ComputeAll(mts, exs, rs) ==
    IF mts = <<>> THEN [error |-> None, metrics |-> <<>>, events |-> <<>>]
    ELSE LET r == MetricCompute(Head(mts), exs, rs)
             e == Event("compute", Head(mts).name)
         IN  IF r.error # None THEN [error |-> r.error, metrics |-> <<>>, events |-> <<e>>]
             ELSE LET rest == ComputeAll(Tail(mts), exs, rs) IN
                  [error |-> rest.error, metrics |-> <<r.result>> \o rest.metrics,
                   events |-> <<e>> \o rest.events]

\* prediction records that join example i with the response counted from the end
PredictionRecords_reversed(exs, rs) ==
    [i \in Zip(exs, rs) |-> [uid |-> exs[i].uid, text |-> exs[i].text,
                             expected |-> exs[i].expected,
                             predicted |-> rs[Len(rs) + 1 - i].output,
                             metadata |-> rs[Len(rs) + 1 - i].metadata]]

\* PredictionRecord(uid, inputs, expected_output, predicted_output, metadata) for
\* each pair of zip(dataset.examples(), responses)
PredictionRecords(exs, rs) ==
    [i \in Zip(exs, rs) |-> [uid |-> exs[i].uid, text |-> exs[i].text,
                             expected |-> exs[i].expected, predicted |-> rs[i].output,
                             metadata |-> rs[i].metadata]]

\* EvaluationResult(...)
EvaluationResult(name, task, metrics, predictions, started, completed, path) ==
    [name |-> name, task |-> task, metrics |-> metrics, predictions |-> predictions,
     started_at |-> started, completed_at |-> completed, output_path |-> path]
NoResult == EvaluationResult(None, None, <<>>, <<>>, 0 - 1, 0 - 1, None)

\* a to_dict that puts the predictions in the payload whatever include_predictions is
ToDict_always(res, includePredictions) ==
    [name |-> res.name, task |-> res.task, started_at |-> res.started_at,
     completed_at |-> res.completed_at, metrics |-> res.metrics,
     output_path |-> res.output_path,
     hasPredictions |-> TRUE,
     predictions |-> res.predictions]

\* EvaluationResult.to_dict(include_predictions=...)
ToDict(res, includePredictions) ==
    [name |-> res.name, task |-> res.task, started_at |-> res.started_at,
     completed_at |-> res.completed_at, metrics |-> res.metrics,
     output_path |-> res.output_path,
     hasPredictions |-> includePredictions,
     predictions |-> IF includePredictions THEN res.predictions ELSE <<>>]

\* The clock counts ticks, TicksPerSecond of them to the second: datetime.now reads
\* an instant finer than the second.
TicksPerSecond == 2

\* completed_at.strftime("%Y%m%dT%H%M%S"): the instant cut to its second
Timestamp(t) == Str(t \div TicksPerSecond)

\* output_dir / f"{self.config.name}_{timestamp}.json"
FilePath(dir, name, completed) == dir \o "/" \o name \o "_" \o Timestamp(completed) \o ".json"

\* a _persist_results that writes into the working directory
PersistResults_cwd(cfg, res, files) ==
    IF cfg.directory = None THEN [path |-> None, fs |-> files, events |-> <<>>]
    ELSE LET path == FilePath(".", cfg.name, res.completed_at) IN
         [path |-> path,
          fs |-> SetItem(files, path, ToDict(res, cfg.save_predictions)),
          events |-> <<Event("write", path)>>]

\* _persist_results: None without an output directory, else the file written
PersistResults(cfg, res, files) ==
    IF cfg.directory = None THEN [path |-> None, fs |-> files, events |-> <<>>]
    ELSE LET path == FilePath(cfg.directory, cfg.name, res.completed_at) IN
         [path |-> path,
          fs |-> SetItem(files, path, ToDict(res, cfg.save_predictions)),
          events |-> <<Event("write", path)>>]

NoLocals == [metric_instances |-> <<>>, start_time |-> 0 - 1, completed_time |-> 0 - 1,
             responses |-> <<>>, metrics |-> <<>>, predictions |-> <<>>]

NoConfig == [name |-> None, task |-> None, dataset |-> None, model |-> None,
             params |-> [batch_size |-> PyNone, artifact |-> None], metrics |-> <<>>,
             directory |-> None, save_predictions |-> TRUE]

(***************************************************************************)
(* The parts at rest: the values a specification gives the variables of    *)
(* the parts it does not exercise.                                         *)
(***************************************************************************)

RegIdle ==
    /\ items = RegistryInit
    /\ regLast = NoCall
    /\ regBefore = RegistryInit
    /\ firstCall = [r \in RegistryNames |-> EmptyItems]

DsIdle ==
    /\ file = <<>>
    /\ cache = NoCache
    /\ loadCalls = 0
    /\ loadsDone = 0
    /\ dsLast = NoDsCall
    /\ dsFirst = NoCache

\* warmup: what the last Task.warmup() raised ("none": it was not called)
NoTaskCall == [op |-> "none", error |-> None, responses |-> <<>>, calls |-> <<>>,
               input |-> <<>>, warmup |-> "none"]

TaskIdle ==
    /\ taskKind = None
    /\ model = KeywordModel
    /\ taskOut = NoTaskCall

RunIdle ==
    /\ config = NoConfig
    /\ pc = "idle"
    /\ now = 0
    /\ locals = NoLocals
    /\ result = NoResult
    /\ raised = None
    /\ thrown = <<>>
    /\ events = <<>>
    /\ fs = EmptyItems

NoMetric == [cls |-> None, name |-> None, average |-> None]
NoMetricInput == [metric |-> NoMetric, examples |-> <<>>, responses |-> <<>>]
NoMetricCall == [op |-> "none", error |-> None, result |-> MetricResult(None, Zero, 0, 0)]

MetricIdle ==
    /\ mIn = NoMetricInput
    /\ mOut = NoMetricCall

(***************************************************************************)
(* models/mcp.py: MCPModelAdapter                                          *)
(***************************************************************************)

\* MCPModelAdapter(endpoint=..., model_id=model_id, session_factory=...), just built
McpAdapter(model_id) == [model_id |-> model_id, ready |-> FALSE, server_info |-> None]

\* How the server answers a session: initialize ("ok" or a connection error), list_tools
\* ("ok" with the names of its tools, or McpError), call_tool ("ok", a result flagged
\* isError, or McpError) and the text block of its result.
McpServer(connect, listing, tools, call, text) ==
    [connect |-> connect, listing |-> listing, tools |-> tools, call |-> call, text |-> text]

\* the RuntimeErrors the adapter raises itself
McpRuntimeErrors ==
    {"RuntimeError:list_tools", "RuntimeError:not_exposed", "RuntimeError:call_failed",
     "RuntimeError:error_response", "RuntimeError:unexpected_warmup",
     "RuntimeError:unexpected"}

\* _session: factory() and session.initialize(), which records serverInfo
McpSession(ad, srv) ==
    IF srv.connect # "ok"
    THEN [error |-> srv.connect, adapter |-> ad, calls |-> <<"initialize">>]
    ELSE [error |-> None, adapter |-> [ad EXCEPT !.server_info = "stub-server"],
          calls |-> <<"initialize">>]

\* _warmup_async: one session, list_tools, RuntimeError when the listing fails or
\* model_id is not among the tools, _ready = True after the session has closed
WarmupAsync(ad, srv) ==
    LET s == McpSession(ad, srv) IN
    IF s.error # None THEN s
    ELSE LET calls == s.calls \o <<"list_tools">> IN
         IF srv.listing # "ok"
         THEN [error |-> "RuntimeError:list_tools", adapter |-> s.adapter, calls |-> calls]
         ELSE IF ad.model_id \notin srv.tools
         THEN [error |-> "RuntimeError:not_exposed", adapter |-> s.adapter, calls |-> calls]
         ELSE [error |-> None, adapter |-> [s.adapter EXCEPT !.ready = TRUE], calls |-> calls]

\* warmup: a RuntimeError is re-raised, any other exception becomes a RuntimeError
McpWarmup(ad, srv) ==
    LET r == WarmupAsync(ad, srv) IN
    IF r.error = None \/ r.error \in McpRuntimeErrors THEN r
    ELSE [r EXCEPT !.error = "RuntimeError:unexpected_warmup"]

\* _ensure_ready: the warmup, its exceptions re-raised or left to propagate
EnsureReady(ad, srv) == WarmupAsync(ad, srv)

\* _parse_result and metadata.setdefault("example_uid", ...): the tool, the content
\* blocks of the result, the serverInfo a session recorded (when one did), the uid
\* of the example
McpMetadata(ad, srv, example) ==
    IF ad.server_info = None
    THEN [tool |-> ad.model_id, content |-> <<[type |-> "text", text |-> srv.text]>>,
          example_uid |-> example.uid]
    ELSE [tool |-> ad.model_id, content |-> <<[type |-> "text", text |-> srv.text]>>,
          server_info |-> ad.server_info, example_uid |-> example.uid]

\* a _predict_async that takes the text of a result flagged isError as the output
PredictAsync_lenient(ad, srv, example) ==
    LET s == McpSession(ad, srv) IN
    IF s.error # None
    THEN [error |-> s.error, response |-> NoResponse, adapter |-> s.adapter, calls |-> s.calls]
    ELSE LET calls == s.calls \o <<"call_tool">> IN
         IF srv.call = "McpError"
         THEN [error |-> "RuntimeError:call_failed", response |-> NoResponse,
               adapter |-> s.adapter, calls |-> calls]
         ELSE [error |-> None,
               response |-> ModelResponse(example.uid, Lbl(srv.text),
                                          McpMetadata(s.adapter, srv, example)),
               adapter |-> s.adapter, calls |-> calls]

\* _predict_async: one session, call_tool; McpError and a result flagged isError raise
\* RuntimeError, else ModelResponse(uid=example.uid, output=<the text blocks>)
PredictAsync(ad, srv, example) ==
    LET s == McpSession(ad, srv) IN
    IF s.error # None
    THEN [error |-> s.error, response |-> NoResponse, adapter |-> s.adapter, calls |-> s.calls]
    ELSE LET calls == s.calls \o <<"call_tool">> IN
         IF srv.call = "McpError"
         THEN [error |-> "RuntimeError:call_failed", response |-> NoResponse,
               adapter |-> s.adapter, calls |-> calls]
         ELSE IF srv.call = "isError"
         THEN [error |-> "RuntimeError:error_response", response |-> NoResponse,
               adapter |-> s.adapter, calls |-> calls]
         ELSE [error |-> None,
               response |-> ModelResponse(example.uid, Lbl(srv.text),
                                          McpMetadata(s.adapter, srv, example)),
               adapter |-> s.adapter, calls |-> calls]

\* a predict that lists the tools in every call, ready or not
McpPredict_always(ad, srv, later, example) ==
    LET e == EnsureReady(ad, srv) IN
    IF e.error # None
    THEN [error |-> e.error, response |-> NoResponse, adapter |-> e.adapter, calls |-> e.calls]
    ELSE LET r == PredictAsync(e.adapter, later, example) IN
         [r EXCEPT !.calls = e.calls \o r.calls,
                   !.error = IF r.error = None \/ r.error \in McpRuntimeErrors THEN r.error
                             ELSE "RuntimeError:unexpected"]

\* a predict that goes on to the tool call after a warmup that failed
McpPredict_unready(ad, srv, later, example) ==
    LET e == IF ad.ready THEN [error |-> None, adapter |-> ad, calls |-> <<>>]
             ELSE EnsureReady(ad, srv)
        r == PredictAsync(e.adapter, later, example)
    IN  [r EXCEPT !.calls = e.calls \o r.calls,
                  !.error = IF r.error = None \/ r.error \in McpRuntimeErrors THEN r.error
                            ELSE "RuntimeError:unexpected"]

\* predict: _ensure_ready() when not _ready, outside the try block, so what it raises
\* leaves predict as it is; then _predict_async, a RuntimeError re-raised and any
\* other exception wrapped in a RuntimeError. The two are two asyncio.run calls with
\* a session each: srv is the server as the first session of predict meets it,
\* later the server as the tool-call session meets it when that is the second.
McpPredict(ad, srv, later, example) ==
    LET e == IF ad.ready THEN [error |-> None, adapter |-> ad, calls |-> <<>>]
             ELSE EnsureReady(ad, srv)
    IN  IF e.error # None
        THEN [error |-> e.error, response |-> NoResponse, adapter |-> e.adapter,
              calls |-> e.calls]
        ELSE LET r == PredictAsync(e.adapter, IF ad.ready THEN srv ELSE later, example) IN
             [r EXCEPT !.calls = e.calls \o r.calls,
                       !.error = IF r.error = None \/ r.error \in McpRuntimeErrors
                                 THEN r.error
                                 ELSE "RuntimeError:unexpected"]

NoServer == McpServer(None, None, {}, None, None)
\* server: the server as the first session of the call met it; toolServer: as the
\* last session of the call met it
NoMcpCall == [op |-> "none", uid |-> None, error |-> None, response |-> NoResponse,
              calls |-> <<>>, before |-> McpAdapter(None), server |-> NoServer,
              toolServer |-> NoServer,
              prevOp |-> "none", prevError |-> None, foundBefore |-> FALSE]

\* the server answers initialize and list_tools, and model_id is among its tools
Exposes(srv, model_id) ==
    srv.connect = "ok" /\ srv.listing = "ok" /\ model_id \in srv.tools

Has(calls, c) == \E i \in 1..Len(calls) : calls[i] = c

\* the sessions opened by a call
Sessions(calls) == Cardinality({i \in 1..Len(calls) : calls[i] = "initialize"})

McpIdle ==
    /\ adapter = McpAdapter(None)
    /\ server = NoServer
    /\ mcpLast = NoMcpCall
    /\ found = FALSE

(***************************************************************************)
(* api/app.py and runner.py: create-run requests served side by side       *)
(***************************************************************************)

\* the requests in flight
RunIds == {"a", "b"}

\* cls(*args, **kwargs) as executed by a create that keeps one instance per class and
\* hands it out again
NewInstance_memo(h, inst) ==
    IF \E i \in 1..Len(h) : h[i].cls = inst.cls
    THEN [heap |-> h, ref |-> CHOOSE i \in 1..Len(h) : h[i].cls = inst.cls]
    ELSE [heap |-> Append(h, inst), ref |-> Len(h) + 1]

\* cls(*args, **kwargs) in Registry.create: every call constructs a new object
NewInstance(h, inst) == [heap |-> Append(h, inst), ref |-> Len(h) + 1]

\* an object of class cls constructed by run r: a Dataset with its _cache, a model
\* with its attributes, a Task with the dataset and the model it was given
Instance(cls, r, c, m, d, md) ==
    [cls |-> cls, owner |-> r, users |-> {}, cache |-> c, model |-> m, dataset |-> d,
     adapter |-> md]

\* The JSON text of a str (no character of the strings here is escaped), and of a
\* value with its Python type, in characters
JsonStr(s) == Len(s) + 2
JsonValue(v) ==
    IF v.type = "str" THEN JsonStr(v.repr)
    ELSE IF v.type = "NoneType" THEN Len("null")
    ELSE Len(v.repr)

\* One line of a dump with indent=2: the indent, the key, ": ", the value or the
\* bracket that opens it, the comma if there is one, the newline
KeyLine(indent, key, valueLen, comma) ==
    indent + JsonStr(key) + 2 + valueLen + (IF comma THEN 1 ELSE 0) + 1

\* datetime.isoformat() of an instant in UTC: YYYY-MM-DDTHH:MM:SS, ".ffffff" unless
\* the microsecond is 0, "+00:00"
IsoformatLen(t) ==
    Len("2024-01-01T00:00:00") + (IF t % TicksPerSecond = 0 THEN 0 ELSE Len(".500000"))
        + Len("+00:00")

\* float.__repr__ of a score with denominator 1 or 2 (the scores over the two examples
\* of the runs' dataset): the integer part, the point, one digit
FloatLen(x) == Len(Str(x.num \div x.den)) + 2

\* MetricResult.to_dict() in the list of metrics, the details being those of
\* AccuracyMetric: correct and total
MetricLen(m, last) ==
    Len("    {") + 1
        + KeyLine(6, "name", JsonStr(m.name), TRUE)
        + KeyLine(6, "value", FloatLen(m.value), TRUE)
        + KeyLine(6, "details", 1, FALSE)
        + KeyLine(8, "correct", Len(Str(m.correct)), TRUE)
        + KeyLine(8, "total", Len(Str(m.total)), FALSE)
        + Len("      }") + 1
        + Len("    }") + (IF last THEN 0 ELSE 1) + 1

\* a str or None of a metadata dict
JsonStrOrNull(v) == IF v = None THEN Len("null") ELSE JsonStr(v)

\* PredictionRecord.to_dict() in the list of predictions, the metadata being those
\* of KeywordMatchingModel.predict: matched_keyword, matched_category, model_name
PredictionLen(p, last) ==
    Len("    {") + 1
        + KeyLine(6, "uid", JsonStr(p.uid), TRUE)
        + KeyLine(6, "inputs", 1, FALSE)
        + KeyLine(8, "text", IF p.text \in NonStrTexts THEN Len(p.text) - 1
                             ELSE JsonStr(p.text), FALSE)
        + Len("      },") + 1
        + KeyLine(6, "expected_output", JsonValue(p.expected), TRUE)
        + KeyLine(6, "predicted_output", JsonValue(p.predicted), TRUE)
        + KeyLine(6, "metadata", 1, FALSE)
        + KeyLine(8, "matched_keyword", JsonStrOrNull(p.metadata.matched_keyword), TRUE)
        + KeyLine(8, "matched_category", JsonStrOrNull(p.metadata.matched_category), TRUE)
        + KeyLine(8, "model_name", JsonStr(p.metadata.model_name), FALSE)
        + Len("      }") + 1
        + Len("    }") + (IF last THEN 0 ELSE 1) + 1

\* "key": [...] with one item after the other, or "key": []
ListLines(key, list, ItemLen(_, _), comma) ==
    IF list = <<>> THEN KeyLine(2, key, Len("[]"), comma)
    ELSE KeyLine(2, key, 1, FALSE)
            + NSum(DOMAIN list, [i \in DOMAIN list |-> ItemLen(list[i], i = Len(list))])
            + Len("  ]") + (IF comma THEN 1 ELSE 0) + 1

\* The number of characters json.dump(payload, handle, indent=2) writes
TextLen(payload) ==
    Len("{") + 1
        + KeyLine(2, "name", JsonStr(payload.name), TRUE)
        + KeyLine(2, "task", JsonStr(payload.task), TRUE)
        + KeyLine(2, "started_at", IsoformatLen(payload.started_at) + 2, TRUE)
        + KeyLine(2, "completed_at", IsoformatLen(payload.completed_at) + 2, TRUE)
        + ListLines("metrics", payload.metrics, MetricLen, TRUE)
        + KeyLine(2, "output_path",
                  IF payload.output_path = None THEN Len("null")
                  ELSE JsonStr(payload.output_path), payload.hasPredictions)
        + (IF payload.hasPredictions
           THEN ListLines("predictions", payload.predictions, PredictionLen, FALSE)
           ELSE 0)
        + Len("}")

\* A text in a file: pieces of dumps, each the characters from..to of the text
\* json.dump writes for a payload.
Piece(payload, from, to) == [of |-> payload, from |-> from, to |-> to]

\* json.dump(payload, handle, indent=2): the text of the payload
JsonDump(payload) == <<Piece(payload, 1, TextLen(payload))>>

\* the number of characters of a text
RECURSIVE Chars(_)
Chars(text) ==
    IF text = <<>> THEN 0 ELSE Head(text).to - Head(text).from + 1 + Chars(Tail(text))

\* what a text holds beyond its first n characters
RECURSIVE Beyond(_, _)
Beyond(text, n) ==
    IF text = <<>> \/ n = 0 THEN text
    ELSE LET p == Head(text)
             l == p.to - p.from + 1
         IN  IF n >= l THEN Beyond(Tail(text), n - l)
             ELSE <<[p EXCEPT !.from = p.from + n]>> \o Tail(text)

\* write through a handle opened at offset 0 on a file that has content old: the new
\* text replaces the beginning of the file and what lies beyond it stays
WriteAtStart(old, new) == new \o Beyond(old, Chars(new))

NoRun == [pc |-> "idle", config |-> NoConfig, dataset |-> 0, model |-> 0, task |-> 0,
          locals |-> NoLocals, handle |-> None, payload |-> ToDict(NoResult, FALSE),
          result |-> NoResult, raised |-> None]

RunsIdle ==
    /\ heap = <<>>
    /\ runs = [r \in RunIds |-> NoRun]
    /\ disk = EmptyItems
    /\ writes = <<>>

(***************************************************************************)
(* registry.py: register calls made by threads                             *)
(***************************************************************************)

ThreadIds == {"t1", "t2"}

NoThread == [pc |-> "idle", registry |-> None, key |-> None, cls |-> None, outcome |-> None]

\* if key in self._items: raise ValueError(...)
RegisterTest(its, key) == IF key \in DOMAIN its THEN "ValueError" ELSE None

\* self._items[key] = cls, by a call that has passed the test
RegisterStore(its, key, cls) == SetItem(its, key, cls)

ThreadsIdle == threads = [t \in ThreadIds |-> NoThread]

(***************************************************************************)
(* SpecRegistry: register, create and get calls on the four registries     *)
(***************************************************************************)

RegInit ==
    /\ DsIdle
    /\ TaskIdle
    /\ RunIdle
    /\ MetricIdle
    /\ McpIdle
    /\ RunsIdle
    /\ ThreadsIdle
    /\ items = RegistryInit
    /\ regLast = NoCall
    /\ regBefore = RegistryInit
    /\ firstCall = [r \in RegistryNames |-> EmptyItems]

\* @REGISTRY.register(key) applied to cls
Register(r, key, cls) ==
    LET res == RegistryRegister(items[r], key, cls) IN
    /\ items' = [items EXCEPT ![r] = res.items]
    /\ regBefore' = items
    /\ firstCall' = IF key \in DOMAIN firstCall[r] THEN firstCall
                    ELSE [firstCall EXCEPT ![r] = SetItem(firstCall[r], key, cls)]
    /\ regLast' = [NoCall EXCEPT !.op = "register", !.registry = r, !.key = key,
                                 !.cls = cls, !.outcome = res.outcome]
    /\ UNCHANGED <<threads, runsVars, mcpVars, metricVars, dsVars, taskVars, runVars>>

\* REGISTRY.create(key, ...)
Create(r, key) ==
    LET res == RegistryCreate(items[r], key) IN
    /\ regBefore' = items
    /\ regLast' = [NoCall EXCEPT !.op = "create", !.registry = r, !.key = key,
                                 !.outcome = res.outcome,
                                 !.constructed = res.constructed,
                                 !.returned = IF res.constructed = None THEN None
                                              ELSE "instance"]
    /\ UNCHANGED <<threads, runsVars, mcpVars, metricVars, items, firstCall, dsVars, taskVars, runVars>>

\* REGISTRY.get(key)
Get(r, key) ==
    LET res == RegistryGet(items[r], key) IN
    /\ regBefore' = items
    /\ regLast' = [NoCall EXCEPT !.op = "get", !.registry = r, !.key = key,
                                 !.outcome = res.outcome, !.returned = res.returned]
    /\ UNCHANGED <<threads, runsVars, mcpVars, metricVars, items, firstCall, dsVars, taskVars, runVars>>

RegNext ==
    \/ \E r \in RegistryNames, key \in CallKeys, cls \in CallClasses : Register(r, key, cls)
    \/ \E r \in RegistryNames, key \in CallKeys : Create(r, key)
    \/ \E r \in RegistryNames, key \in CallKeys : Get(r, key)

SpecRegistry == RegInit /\ [][RegNext]_vars

(***************************************************************************)
(* SpecDataset: examples(), iteration and len() on one Dataset instance,   *)
(* whose file may be rewritten between two calls                           *)
(***************************************************************************)

DsInit ==
    /\ RegIdle
    /\ TaskIdle
    /\ RunIdle
    /\ MetricIdle
    /\ McpIdle
    /\ RunsIdle
    /\ ThreadsIdle
    /\ file \in DsFiles
    /\ cache = NoCache
    /\ loadCalls = 0
    /\ loadsDone = 0
    /\ dsLast = NoDsCall
    /\ dsFirst = NoCache

DsRecord(op, r, returned, count) ==
    /\ cache' = r.cache
    /\ loadCalls' = loadCalls + r.loads
    /\ loadsDone' = loadsDone + r.done
    /\ dsLast' = [op |-> op, outcome |-> r.outcome, returned |-> returned, count |-> count,
                  cachedBefore |-> ~cache.isNone, loads |-> r.loads]
    /\ dsFirst' = IF dsFirst.isNone /\ r.done > 0 THEN Cached(Load(file).yielded)
                  ELSE dsFirst
    /\ UNCHANGED <<threads, runsVars, mcpVars, metricVars, file, regVars, taskVars, runVars>>

\* dataset.examples()
Examples ==
    /\ loadCalls < MaxLoadCalls
    /\ LET r == DatasetExamples(cache, file) IN DsRecord("examples", r, r.returned, Len(r.returned))

\* list(dataset): iter(dataset) run to its end
Iterate ==
    /\ loadCalls < MaxLoadCalls
    /\ LET it == DatasetIter(cache, file)
           r == [outcome |-> IF it.error = None THEN "ok" ELSE it.error, cache |-> it.cache,
                 loads |-> it.loads, done |-> it.done]
       IN DsRecord("iter", r, it.yielded, Len(it.yielded))

\* len(dataset)
Length ==
    /\ loadCalls < MaxLoadCalls
    /\ LET r == DatasetLen(cache, file) IN
       DsRecord("len", r, <<>>, r.returned)

\* The file is rewritten (or created, or removed) between two calls.
RewriteFile ==
    /\ dsLast.op # "none"
    /\ file' \in DsFiles \ {file}
    /\ UNCHANGED <<threads, runsVars, mcpVars, metricVars, cache, loadCalls, loadsDone, dsLast, dsFirst, regVars, taskVars, runVars>>

DsNext == Examples \/ Iterate \/ Length \/ RewriteFile

SpecDataset == DsInit /\ [][DsNext]_vars

(***************************************************************************)
(* SpecTask: a task built on a dataset and a model; Task.warmup, Task.run  *)
(* and model.predict_batch(dataset.examples()) are called on it            *)
(***************************************************************************)

\* bounds of SpecTask: lines per file, the largest batch_size
MaxTaskLines == 4
MaxBatch == 3

\* lines the files of SpecTask are made of
TaskLines ==
    {BadJson, Rec(NoId, "good", Lbl("positive")), Rec(NoId, "bad", Lbl("positive")),
     Rec(NoId, "#5", Lbl("positive"))}

TaskFiles == SeqsUpTo(TaskLines, MaxTaskLines)

\* values of LangChainRagModel's batch_size parameter
BatchSizes ==
    {PyNone, PyFloat(2), PyBool(1)} \cup {PyInt(n) : n \in 0..MaxBatch}

\* the files documents_path names
TaskDocuments == {NoDocuments, EmptyDocuments, DemoDocuments}

TaskModels ==
    {KeywordModel} \cup {SklearnModel(p) : p \in Pipelines}
        \cup {RagModel(bs, d) : bs \in BatchSizes, d \in TaskDocuments}

TaskKinds == {"TextClassificationTask", "RetrievalQuestionAnsweringTask"}

TaskInit ==
    /\ RegIdle
    /\ RunIdle
    /\ MetricIdle
    /\ McpIdle
    /\ RunsIdle
    /\ ThreadsIdle
    /\ file \in TaskFiles
    /\ cache = NoCache
    /\ loadCalls = 0
    /\ loadsDone = 0
    /\ dsLast = NoDsCall
    /\ dsFirst = NoCache
    /\ taskKind \in TaskKinds
    /\ model \in TaskModels
    /\ taskOut = NoTaskCall

\* Task.warmup(): self.model.warmup(examples); an exception of the model's warmup
\* leaves warmup. A vector store built again in the same process is the same.
TaskWarmup ==
    /\ taskOut.op = "none"
    /\ \E index \in Indexes(model.documents.docs) :
          /\ model.warmed => index = model.index
          /\ LET w == ModelWarmup(model, index) IN
             /\ model' = w.model
             /\ taskOut' = [taskOut EXCEPT !.warmup = w.error]
    /\ UNCHANGED <<threads, runsVars, mcpVars, metricVars, regVars, dsVars, taskKind, runVars>>

\* Task.run()
TaskRun ==
    /\ taskOut.op = "none"
    /\ LET it == DatasetIter(cache, file)
           r == TaskRunOf(taskKind, model, it)
       IN  /\ taskOut' = [op |-> "run", error |-> r.error, responses |-> r.responses,
                          calls |-> r.calls, input |-> it.yielded,
                          warmup |-> taskOut.warmup]
           /\ cache' = it.cache
           /\ loadCalls' = loadCalls + it.loads
           /\ loadsDone' = loadsDone + it.done
    /\ UNCHANGED <<threads, runsVars, mcpVars, metricVars, regVars, file, dsLast, dsFirst, taskKind, model, runVars>>

\* model.predict_batch(dataset.examples())
PredictBatchCall ==
    /\ taskOut.op = "none"
    /\ LET d == DatasetExamples(cache, file) IN
       /\ d.outcome = "ok"
       /\ LET r == PredictBatch(model, d.returned) IN
          taskOut' = [op |-> "predict_batch", error |-> r.error,
                      responses |-> IF r.error = None THEN r.responses ELSE <<>>,
                      calls |-> r.calls, input |-> d.returned,
                      warmup |-> taskOut.warmup]
       /\ cache' = d.cache
       /\ loadCalls' = loadCalls + d.loads
       /\ loadsDone' = loadsDone + d.done
    /\ UNCHANGED <<threads, runsVars, mcpVars, metricVars, regVars, file, dsLast, dsFirst, taskKind, model, runVars>>

TaskNext == TaskWarmup \/ TaskRun \/ PredictBatchCall

SpecTask == TaskInit /\ [][TaskNext]_vars

(***************************************************************************)
(* Spec: one EvaluationAgent(config).run(), statement by statement, in a   *)
(* process whose registries hold what the imports have registered          *)
(***************************************************************************)

\* bounds of Spec: lines per file, metrics per configuration, ticks a task run takes
MaxRunLines == 3
MaxMetrics == 2
MaxElapsed == 2

\* lines the files of Spec are made of
RunLines == {BadJson, Rec(NoId, "good", Lbl("positive")), Rec(NoId, "bad", Lbl("positive"))}

RunFiles == SeqsUpTo(RunLines, MaxRunLines) \cup {Missing}

\* config.model.parameters: batch_size, artifact_path, and documents_path by the
\* file it names
ModelParams(bs, artifact) ==
    [batch_size |-> bs, artifact |-> artifact, documents |-> DemoDocuments]

\* config.model: type and parameters
ModelChoices ==
    {[type |-> "keyword-matching", params |-> ModelParams(PyNone, None)],
     [type |-> "sklearn-pipeline", params |-> ModelParams(PyNone, "missing")],
     [type |-> "langchain-rag", params |-> ModelParams(PyInt(2), None)]}

\* the entries config.metrics is made of
MetricChoices ==
    {MetricConfig("accuracy", None, Unset),
     MetricConfig("precision", "precision_macro", "macro"),
     MetricConfig("recall", None, "bogus"),
     MetricConfig("no-such-metric", None, Unset)}

\* config.output: no directory, or a directory with or without the predictions saved
OutputChoices ==
    {[directory |-> None, save_predictions |-> TRUE],
     [directory |-> "runs", save_predictions |-> TRUE],
     [directory |-> "runs", save_predictions |-> FALSE]}

Configs ==
    {[name |-> "demo", task |-> t, dataset |-> d, model |-> m.type, params |-> m.params,
      metrics |-> ms, directory |-> o.directory, save_predictions |-> o.save_predictions] :
        t \in {"text-classification", "retrieval-qa"},
        d \in {"jsonl-classification", "no-such-dataset"},
        m \in ModelChoices,
        ms \in SeqsUpTo(MetricChoices, MaxMetrics),
        o \in OutputChoices}

Init ==
    /\ items \in {StartupItems, AllItems}
    /\ regLast = NoCall
    /\ regBefore = RegistryInit
    /\ firstCall = [r \in RegistryNames |-> EmptyItems]
    /\ file \in RunFiles
    /\ cache = NoCache
    /\ loadCalls = 0
    /\ loadsDone = 0
    /\ dsLast = NoDsCall
    /\ dsFirst = NoCache
    /\ TaskIdle
    /\ config \in Configs
    /\ pc = Stages[1]
    /\ now = 0
    /\ locals = NoLocals
    /\ result = NoResult
    /\ raised = None
    /\ thrown = <<>>
    /\ events = <<>>
    /\ fs = EmptyItems
    /\ MetricIdle
    /\ McpIdle
    /\ RunsIdle
    /\ ThreadsIdle

\* a component raised error at stage
Fail(stage, error) ==
    LET h == OnRaise(stage, error) IN
    /\ thrown' = Append(thrown, [stage |-> stage, error |-> error])
    /\ raised' = h.raised
    /\ pc' = IF h.handled THEN NextPc(stage) ELSE "raised"

\* the statement at stage has completed
Advance(stage) ==
    /\ pc' = NextPc(stage)
    /\ UNCHANGED <<raised, thrown>>

\* dataset = DATASET_REGISTRY.create(self.config.dataset.type, **parameters)
CreateDataset ==
    /\ pc = "create_dataset"
    /\ LET r == RegistryCreate(items["dataset"], config.dataset) IN
       /\ events' = Append(events, Event("create:dataset", config.dataset))
       /\ IF r.outcome # "ok" THEN Fail("create_dataset", r.outcome)
          ELSE Advance("create_dataset")
    /\ cache' = NoCache
    /\ UNCHANGED <<threads, runsVars, mcpVars, metricVars, regVars, file, loadCalls, loadsDone, dsLast, dsFirst, taskVars,
                   config, now, locals, result, fs>>

\* model = MODEL_REGISTRY.create(self.config.model.type, **parameters)
CreateModel ==
    /\ pc = "create_model"
    /\ LET r == RegistryCreate(items["model"], config.model) IN
       /\ events' = Append(events, Event("create:model", config.model))
       /\ IF r.outcome # "ok" THEN Fail("create_model", r.outcome) /\ UNCHANGED model
          ELSE LET c == ModelConstruct(r.constructed, config.params) IN
               IF c.error # None THEN Fail("create_model", c.error) /\ UNCHANGED model
               ELSE Advance("create_model") /\ model' = c.model
    /\ UNCHANGED <<threads, runsVars, mcpVars, metricVars, regVars, dsVars, taskKind, taskOut, config, now, locals, result, fs>>

\* task = TASK_REGISTRY.create(self.config.task, dataset, model)
CreateTask ==
    /\ pc = "create_task"
    /\ LET r == RegistryCreate(items["task"], config.task) IN
       /\ events' = Append(events, Event("create:task", config.task))
       /\ IF r.outcome # "ok" THEN Fail("create_task", r.outcome) /\ UNCHANGED taskKind
          ELSE Advance("create_task") /\ taskKind' = r.constructed
    /\ UNCHANGED <<threads, runsVars, mcpVars, metricVars, regVars, dsVars, model, taskOut, config, now, locals, result, fs>>

\* metric_instances = self._build_metrics(self.config.metrics)
BuildMetricInstances ==
    /\ pc = "build_metrics"
    /\ LET r == BuildMetrics(items["metric"], config.metrics) IN
       /\ events' = events \o r.events
       /\ IF r.error # None THEN Fail("build_metrics", r.error) /\ UNCHANGED locals
          ELSE Advance("build_metrics")
               /\ locals' = [locals EXCEPT !.metric_instances = r.metrics]
    /\ UNCHANGED <<threads, runsVars, mcpVars, metricVars, regVars, dsVars, taskVars, config, now, result, fs>>

\* start_time = datetime.now(timezone.utc)
CaptureStart ==
    /\ pc = "start_time"
    /\ locals' = [locals EXCEPT !.start_time = now]
    /\ events' = Append(events, Event("now", "start_time"))
    /\ Advance("start_time")
    /\ UNCHANGED <<threads, runsVars, mcpVars, metricVars, regVars, dsVars, taskVars, config, now, result, fs>>

\* responses = task.run(), which takes some time
RunTask ==
    /\ pc = "task_run"
    /\ LET it == DatasetIter(cache, file)
           r == TaskRunOf(taskKind, model, it)
       IN  /\ events' = events \o <<Event("task.run", config.task)>> \o CallEvents(r.calls)
           /\ cache' = it.cache
           /\ loadCalls' = loadCalls + it.loads
           /\ loadsDone' = loadsDone + it.done
           /\ IF r.error # None THEN Fail("task_run", r.error) /\ UNCHANGED locals
              ELSE Advance("task_run") /\ locals' = [locals EXCEPT !.responses = r.responses]
    /\ \E d \in 0..MaxElapsed : now' = now + d
    /\ UNCHANGED <<threads, runsVars, mcpVars, metricVars, regVars, file, dsLast, dsFirst, taskVars, config, result, fs>>

\* completed_time = datetime.now(timezone.utc)
CaptureCompleted ==
    /\ pc = "completed_time"
    /\ locals' = [locals EXCEPT !.completed_time = now]
    /\ events' = Append(events, Event("now", "completed_time"))
    /\ Advance("completed_time")
    /\ UNCHANGED <<threads, runsVars, mcpVars, metricVars, regVars, dsVars, taskVars, config, now, result, fs>>

\* the for loop over metric_instances
ComputeMetrics ==
    /\ pc = "compute_metrics"
    /\ LET d == DatasetExamples(cache, file)
           r == IF locals.metric_instances = <<>>
                THEN [error |-> None, metrics |-> <<>>, events |-> <<>>]
                ELSE IF d.outcome # "ok"
                THEN [error |-> d.outcome, metrics |-> <<>>, events |-> <<>>]
                ELSE ComputeAll(locals.metric_instances, d.returned, locals.responses)
       IN  /\ events' = events \o r.events
           /\ locals' = [locals EXCEPT !.metrics = r.metrics]
           /\ IF r.error # None THEN Fail("compute_metrics", r.error)
              ELSE Advance("compute_metrics")
    /\ UNCHANGED <<threads, runsVars, mcpVars, metricVars, regVars, dsVars, taskVars, config, now, result, fs>>

\* predictions = [PredictionRecord(...) for example, response in zip(...)]
BuildPredictions ==
    /\ pc = "build_predictions"
    /\ LET d == DatasetExamples(cache, file) IN
       IF d.outcome # "ok" THEN Fail("build_predictions", d.outcome) /\ UNCHANGED locals
       ELSE /\ locals' = [locals EXCEPT !.predictions =
                                            PredictionRecords(d.returned, locals.responses)]
            /\ Advance("build_predictions")
    /\ events' = Append(events, Event("predictions", "zip"))
    /\ UNCHANGED <<threads, runsVars, mcpVars, metricVars, regVars, dsVars, taskVars, config, now, result, fs>>

\* result = EvaluationResult(...); result.output_path = self._persist_results(result);
\* return result
Persist ==
    /\ pc = "persist"
    /\ LET res == EvaluationResult(config.name, config.task, locals.metrics,
                                   locals.predictions, locals.start_time,
                                   locals.completed_time, None)
           p == PersistResults(config, res, fs)
       IN  /\ fs' = p.fs
           /\ events' = events \o <<Event("persist", config.name)>> \o p.events
           /\ result' = [res EXCEPT !.output_path = p.path]
    /\ Advance("persist")
    /\ UNCHANGED <<threads, runsVars, mcpVars, metricVars, regVars, dsVars, taskVars, config, now, locals>>

Next ==
    \/ CreateDataset
    \/ CreateModel
    \/ CreateTask
    \/ BuildMetricInstances
    \/ CaptureStart
    \/ RunTask
    \/ CaptureCompleted
    \/ ComputeMetrics
    \/ BuildPredictions
    \/ Persist

Spec == Init /\ [][Next]_vars

(***************************************************************************)
(* SpecMetric: one metric instance and the compute calls made on it, with  *)
(* examples and responses of any lengths                                   *)
(***************************************************************************)

\* bounds of SpecMetric: examples, and responses, per compute call of a classification
\* metric and of a generation metric
MaxPairs == 3
MaxTextPairs == 2

\* expected outputs and model outputs: strings, and the int 1 of a JSON label 1
MetricValues == {Lbl("0"), Lbl("1"), IntLbl("1")}

\* examples with the uids a file without ids gives them, one per expected output
ExamplesOf(vs) == [i \in 1..Len(vs) |-> Example(Str(i - 1), "good", vs[i])]

\* one response per output, under the uids of the examples in order
ResponsesOf(vs) == [i \in 1..Len(vs) |-> ModelResponse(Str(i - 1), vs[i], NoMetadata)]

ScoreClasses == {"PrecisionMetric", "RecallMetric", "F1ScoreMetric"}
Averages == {"macro", "weighted", "micro"}

\* the metric instances of SpecMetric, as the constructors build them
MetricInstances ==
    {MetricConstruct(c, MetricConfig("m", None, a)).metric :
        c \in ScoreClasses, a \in Averages \cup {"bogus"}}
    \cup {MetricConstruct(c, MetricConfig("m", None, Unset)).metric :
            c \in {"AccuracyMetric", "ConfusionMatrixMetric"}}

\* references and hypotheses of the generation metrics
MetricTexts ==
    {Lbl(""), Lbl("the cat sat"), Lbl("The Cat Sat"), Lbl("the cat sat on the mat")}

\* BleuMetric() and RougeLMetric() with their defaults
GenerationInstances ==
    {MetricConstruct(c, MetricConfig("m", None, Unset)).metric : c \in {"BleuMetric", "RougeLMetric"}}

MetricInit ==
    /\ McpIdle
    /\ RunsIdle
    /\ ThreadsIdle
    /\ RegIdle
    /\ DsIdle
    /\ TaskIdle
    /\ RunIdle
    /\ \/ \E mt \in MetricInstances :
             \E es \in SeqsUpTo(MetricValues, MaxPairs), os \in SeqsUpTo(MetricValues, MaxPairs) :
                mIn = [metric |-> mt, examples |-> ExamplesOf(es), responses |-> ResponsesOf(os)]
       \/ \E mt \in GenerationInstances :
             \E es \in SeqsUpTo(MetricTexts, MaxTextPairs),
                os \in SeqsUpTo(MetricTexts, MaxTextPairs) :
                mIn = [metric |-> mt, examples |-> ExamplesOf(es), responses |-> ResponsesOf(os)]
    /\ mOut = NoMetricCall

\* metric.compute(examples=examples, responses=responses)
Compute ==
    /\ LET r == MetricCompute(mIn.metric, mIn.examples, mIn.responses) IN
       mOut' = [op |-> "compute", error |-> r.error,
                result |-> IF r.error = None THEN r.result ELSE NoMetricCall.result]
    /\ UNCHANGED <<threads, runsVars, mcpVars, regVars, dsVars, taskVars, runVars, mIn>>

MetricNext == Compute

SpecMetric == MetricInit /\ [][MetricNext]_vars

(***************************************************************************)
(* SpecMcp: warmup and predict calls on one MCPModelAdapter, the server    *)
(* behind it changing its answers between the calls and between the two    *)
(* sessions of a predict that warms the adapter up                         *)
(***************************************************************************)

McpServers ==
    {McpServer(c, l, t, k, "neutral") :
        c \in {"ok", "OSError"}, l \in {"ok", "McpError"},
        t \in {{"demo-tool"}, {"other-tool"}}, k \in {"ok", "isError", "McpError"}}

McpExamples == {Example("example-1", "It's fine.", Lbl("positive")),
                Example("example-2", "hello", Lbl("positive"))}

McpInit ==
    /\ RunsIdle
    /\ ThreadsIdle
    /\ RegIdle
    /\ DsIdle
    /\ TaskIdle
    /\ RunIdle
    /\ MetricIdle
    /\ adapter = McpAdapter("demo-tool")
    /\ server \in McpServers
    /\ mcpLast = NoMcpCall
    /\ found = FALSE

\* adapter.warmup(None)
McpWarmupCall ==
    /\ LET r == McpWarmup(adapter, server) IN
          /\ adapter' = r.adapter
          /\ mcpLast' = [op |-> "warmup", uid |-> None, error |-> r.error,
                         response |-> NoResponse, calls |-> r.calls, before |-> adapter,
                         server |-> server, toolServer |-> server, prevOp |-> mcpLast.op,
                         prevError |-> mcpLast.error, foundBefore |-> found]
          /\ found' = (found \/ (Has(r.calls, "list_tools") /\ Exposes(server, adapter.model_id)))
    /\ UNCHANGED <<threads, runsVars, server, regVars, dsVars, taskVars, runVars, metricVars>>

\* adapter.predict(example). Where the call opens a second session, the server may
\* have started to answer differently since the first was closed.
McpPredictCall ==
    /\ \E ex \in McpExamples, later \in McpServers :
          LET r == McpPredict(adapter, server, later, ex) IN
          /\ Sessions(r.calls) < 2 => later = server
          /\ adapter' = r.adapter
          /\ server' = later
          /\ mcpLast' = [op |-> "predict", uid |-> ex.uid, error |-> r.error,
                         response |-> r.response, calls |-> r.calls, before |-> adapter,
                         server |-> server, toolServer |-> later, prevOp |-> mcpLast.op,
                         prevError |-> mcpLast.error, foundBefore |-> found]
          /\ found' = (found \/ (Has(r.calls, "list_tools") /\ Exposes(server, adapter.model_id)))
    /\ UNCHANGED <<threads, runsVars, regVars, dsVars, taskVars, runVars, metricVars>>

\* the server starts to answer differently
ServerChange ==
    /\ \E srv \in McpServers \ {server} : server' = srv
    /\ UNCHANGED <<threads, runsVars, adapter, mcpLast, found, regVars, dsVars, taskVars, runVars, metricVars>>

McpNext == McpWarmupCall \/ McpPredictCall \/ ServerChange

SpecMcp == McpInit /\ [][McpNext]_vars

(***************************************************************************)
(* SpecRuns: two create-run requests served by two threads, each running   *)
(* its own EvaluationAgent over the same dataset file and output directory,*)
(* in a process whose registries hold what importing eval_agent.api.app    *)
(* has registered                                                          *)
(***************************************************************************)

\* bound of SpecRuns: the ticks the clock advances while the requests are served
MaxClock == 2

\* the dataset file both configurations point to
RunsFile == <<Rec(NoId, "good", Lbl("positive")), Rec(NoId, "bad", Lbl("positive"))>>

\* the configurations of the requests: the preset, and save_predictions as the request
\* overrides it
RunsConfigs ==
    {[name |-> n, task |-> "text-classification", dataset |-> "jsonl-classification",
      model |-> m.type, params |-> m.params,
      metrics |-> <<MetricConfig("accuracy", None, Unset)>>, directory |-> "runs",
      save_predictions |-> sp] :
        n \in {"demo", "nightly"},
        m \in {[type |-> "keyword-matching", params |-> ModelParams(PyNone, None)],
               [type |-> "langchain-rag", params |-> ModelParams(PyInt(2), None)]},
        sp \in BOOLEAN}

\* the preset of the first request
FirstConfigs == {c \in RunsConfigs : c.name = "demo" /\ c.model = "keyword-matching"}

RunsInit ==
    /\ items = StartupItems
    /\ regLast = NoCall
    /\ regBefore = RegistryInit
    /\ firstCall = [r \in RegistryNames |-> EmptyItems]
    /\ file = RunsFile
    /\ cache = NoCache
    /\ loadCalls = 0
    /\ loadsDone = 0
    /\ dsLast = NoDsCall
    /\ dsFirst = NoCache
    /\ TaskIdle
    /\ RunIdle
    /\ MetricIdle
    /\ McpIdle
    /\ ThreadsIdle
    /\ heap = <<>>
    /\ \E ca \in FirstConfigs, cb \in RunsConfigs :
          runs = [r \in RunIds |-> [NoRun EXCEPT !.pc = Stages[1],
                                                 !.config = IF r = "a" THEN ca ELSE cb]]
    /\ disk = EmptyItems
    /\ writes = <<>>

RunsRest == <<regVars, dsVars, taskVars, config, pc, locals, result, raised, thrown,
              events, fs, metricVars, mcpVars, threads>>

\* run r called a method of the instances refs
Used(h, refs, r) ==
    [i \in 1..Len(h) |-> IF i \in refs THEN [h[i] EXCEPT !.users = @ \cup {r}] ELSE h[i]]

\* the statement of run r at stage has completed / has raised error
RunSteps(r, stage, error, rec) ==
    runs' = [runs EXCEPT ![r] =
                IF error # None THEN [runs[r] EXCEPT !.pc = "raised", !.raised = error]
                ELSE [rec EXCEPT !.pc = NextPc(stage)]]

\* dataset = DATASET_REGISTRY.create(self.config.dataset.type, **parameters)
RunCreateDataset(r) ==
    /\ runs[r].pc = "create_dataset"
    /\ LET c == RegistryCreate(items["dataset"], runs[r].config.dataset)
           n == NewInstance(heap, Instance(c.constructed, r, NoCache, KeywordModel, 0, 0))
       IN  /\ heap' = IF c.outcome = "ok" THEN n.heap ELSE heap
           /\ RunSteps(r, "create_dataset", IF c.outcome = "ok" THEN None ELSE c.outcome,
                       [runs[r] EXCEPT !.dataset = n.ref])
    /\ UNCHANGED <<RunsRest, now, disk, writes>>

\* model = MODEL_REGISTRY.create(self.config.model.type, **parameters)
RunCreateModel(r) ==
    /\ runs[r].pc = "create_model"
    /\ LET c == RegistryCreate(items["model"], runs[r].config.model)
           m == ModelConstruct(c.constructed, runs[r].config.params)
           n == NewInstance(heap, Instance(c.constructed, r, NoCache, m.model, 0, 0))
           error == IF c.outcome # "ok" THEN c.outcome ELSE m.error
       IN  /\ heap' = IF error = None THEN n.heap ELSE heap
           /\ RunSteps(r, "create_model", error, [runs[r] EXCEPT !.model = n.ref])
    /\ UNCHANGED <<RunsRest, now, disk, writes>>

\* task = TASK_REGISTRY.create(self.config.task, dataset, model)
RunCreateTask(r) ==
    /\ runs[r].pc = "create_task"
    /\ LET c == RegistryCreate(items["task"], runs[r].config.task)
           n == NewInstance(heap, Instance(c.constructed, r, NoCache, KeywordModel,
                                           runs[r].dataset, runs[r].model))
       IN  /\ heap' = IF c.outcome = "ok" THEN n.heap ELSE heap
           /\ RunSteps(r, "create_task", IF c.outcome = "ok" THEN None ELSE c.outcome,
                       [runs[r] EXCEPT !.task = n.ref])
    /\ UNCHANGED <<RunsRest, now, disk, writes>>

\* metric_instances = self._build_metrics(self.config.metrics)
RunBuildMetrics(r) ==
    /\ runs[r].pc = "build_metrics"
    /\ LET b == BuildMetrics(items["metric"], runs[r].config.metrics) IN
       RunSteps(r, "build_metrics", b.error,
                [runs[r] EXCEPT !.locals.metric_instances = b.metrics])
    /\ UNCHANGED <<RunsRest, now, heap, disk, writes>>

\* start_time = datetime.now(timezone.utc)
RunCaptureStart(r) ==
    /\ runs[r].pc = "start_time"
    /\ RunSteps(r, "start_time", None, [runs[r] EXCEPT !.locals.start_time = now])
    /\ UNCHANGED <<RunsRest, now, heap, disk, writes>>

\* responses = task.run(): the task iterates its dataset and calls its model
RunTaskRun(r) ==
    /\ runs[r].pc = "task_run"
    /\ LET t == heap[runs[r].task]
           it == DatasetIter(heap[t.dataset].cache, file)
           o == TaskRunOf(t.cls, heap[t.adapter].model, it)
       IN  /\ heap' = [Used(heap, {runs[r].task, t.dataset, t.adapter}, r)
                          EXCEPT ![t.dataset].cache = it.cache]
           /\ RunSteps(r, "task_run", o.error, [runs[r] EXCEPT !.locals.responses = o.responses])
    /\ UNCHANGED <<RunsRest, now, disk, writes>>

\* completed_time = datetime.now(timezone.utc)
RunCaptureCompleted(r) ==
    /\ runs[r].pc = "completed_time"
    /\ RunSteps(r, "completed_time", None, [runs[r] EXCEPT !.locals.completed_time = now])
    /\ UNCHANGED <<RunsRest, now, heap, disk, writes>>

\* the for loop over metric_instances, each compute given dataset.examples()
RunComputeMetrics(r) ==
    /\ runs[r].pc = "compute_metrics"
    /\ LET d == DatasetExamples(heap[runs[r].dataset].cache, file)
           c == IF d.outcome # "ok" THEN [error |-> d.outcome, metrics |-> <<>>]
                ELSE ComputeAll(runs[r].locals.metric_instances, d.returned,
                                runs[r].locals.responses)
       IN  /\ heap' = [Used(heap, {runs[r].dataset}, r) EXCEPT ![runs[r].dataset].cache = d.cache]
           /\ RunSteps(r, "compute_metrics", c.error, [runs[r] EXCEPT !.locals.metrics = c.metrics])
    /\ UNCHANGED <<RunsRest, now, disk, writes>>

\* predictions = [PredictionRecord(...) for example, response in zip(...)]
RunBuildPredictions(r) ==
    /\ runs[r].pc = "build_predictions"
    /\ LET d == DatasetExamples(heap[runs[r].dataset].cache, file) IN
       /\ heap' = [Used(heap, {runs[r].dataset}, r) EXCEPT ![runs[r].dataset].cache = d.cache]
       /\ RunSteps(r, "build_predictions", IF d.outcome = "ok" THEN None ELSE d.outcome,
                   [runs[r] EXCEPT !.locals.predictions =
                                      PredictionRecords(d.returned, runs[r].locals.responses)])
    /\ UNCHANGED <<RunsRest, now, disk, writes>>

\* result = EvaluationResult(...) and _persist_results up to file_path.open("w"), which
\* creates the file or truncates it; the handle stays open
RunPersistOpen(r) ==
    /\ runs[r].pc = "persist"
    /\ runs[r].handle = None
    /\ LET cfg == runs[r].config
           res == EvaluationResult(cfg.name, cfg.task, runs[r].locals.metrics,
                                   runs[r].locals.predictions, runs[r].locals.start_time,
                                   runs[r].locals.completed_time, None)
           path == FilePath(cfg.directory, cfg.name, res.completed_at)
       IN  /\ disk' = SetItem(disk, path, <<>>)
           /\ runs' = [runs EXCEPT ![r].handle = path, ![r].result = res,
                                   ![r].payload = ToDict(res, cfg.save_predictions)]
    /\ UNCHANGED <<RunsRest, now, heap, writes>>

\* json.dump(payload, handle, indent=2) and the close of the handle, which writes the
\* text from the start of the file; result.output_path = output_path; return result
RunPersistWrite(r) ==
    /\ runs[r].pc = "persist"
    /\ runs[r].handle # None
    /\ disk' = [disk EXCEPT ![runs[r].handle] = WriteAtStart(@, JsonDump(runs[r].payload))]
    /\ writes' = Append(writes, r)
    /\ runs' = [runs EXCEPT ![r].pc = NextPc("persist"),
                            ![r].result.output_path = runs[r].handle]
    /\ UNCHANGED <<RunsRest, now, heap>>

\* time passes
Tick ==
    /\ now < MaxClock
    /\ now' = now + 1
    /\ UNCHANGED <<RunsRest, runsVars>>

RunsNext ==
    \/ \E r \in RunIds :
          \/ RunCreateDataset(r)
          \/ RunCreateModel(r)
          \/ RunCreateTask(r)
          \/ RunBuildMetrics(r)
          \/ RunCaptureStart(r)
          \/ RunTaskRun(r)
          \/ RunCaptureCompleted(r)
          \/ RunComputeMetrics(r)
          \/ RunBuildPredictions(r)
          \/ RunPersistOpen(r)
          \/ RunPersistWrite(r)
    \/ Tick

SpecRuns == RunsInit /\ [][RunsNext]_vars

(***************************************************************************)
(* SpecRace: two threads, each in one register call; a thread may be       *)
(* switched out between the test and the assignment of the decorator       *)
(***************************************************************************)

\* the keys and classes of the late registrations
LateKeys == {"keyword-matching", "late"}
LateClasses == [t1 |-> "FirstClass", t2 |-> "SecondClass"]

RaceInit ==
    /\ items \in {RegistryInit, StartupItems}
    /\ regLast = NoCall
    /\ regBefore = items
    /\ firstCall = [r \in RegistryNames |-> EmptyItems]
    /\ DsIdle
    /\ TaskIdle
    /\ RunIdle
    /\ MetricIdle
    /\ McpIdle
    /\ RunsIdle
    /\ \E ra, rb \in RegistryNames, ka, kb \in LateKeys :
          threads = [t \in ThreadIds |->
                        [pc |-> "test", registry |-> IF t = "t1" THEN ra ELSE rb,
                         key |-> IF t = "t1" THEN ka ELSE kb, cls |-> LateClasses[t],
                         outcome |-> None]]

\* thread t evaluates key in self._items and raises when it is there
ThreadTest(t) ==
    /\ threads[t].pc = "test"
    /\ LET e == RegisterTest(items[threads[t].registry], threads[t].key) IN
       threads' = [threads EXCEPT ![t].pc = IF e = None THEN "store" ELSE "raised",
                                  ![t].outcome = e]
    /\ UNCHANGED <<regVars, dsVars, taskVars, runVars, metricVars, mcpVars, runsVars>>

\* thread t executes self._items[key] = cls and returns cls
ThreadStore(t) ==
    /\ threads[t].pc = "store"
    /\ items' = [items EXCEPT ![threads[t].registry] =
                    RegisterStore(@, threads[t].key, threads[t].cls)]
    /\ threads' = [threads EXCEPT ![t].pc = "returned", ![t].outcome = "ok"]
    /\ UNCHANGED <<regLast, regBefore, firstCall, dsVars, taskVars, runVars, metricVars,
                   mcpVars, runsVars>>

RaceNext == \E t \in ThreadIds : ThreadTest(t) \/ ThreadStore(t)

SpecRace == RaceInit /\ [][RaceNext]_vars

\* C1: a create call for a key that is not registered fails with the unknown-key
\* error (KeyError): it returns no instance (neither a default nor any other), calls
\* no constructor, and leaves the registered keys of every registry as they were.
C1_CreateUnknownFails ==
    (regLast.op = "create" /\ regLast.key \notin DOMAIN regBefore[regLast.registry])
        => /\ regLast.outcome = "KeyError"
           /\ regLast.returned = None
           /\ regLast.constructed = None
           /\ items = regBefore

\* a create for an unregistered key has been made on a registry that holds another key
C1_Witness ==
    /\ regLast.op = "create"
    /\ regLast.key \notin DOMAIN regBefore[regLast.registry]
    /\ DOMAIN regBefore[regLast.registry] # {}
    /\ regLast.outcome = "KeyError"

\* C2: a register call for a key that is already present fails with the
\* duplicate-key error (ValueError) and leaves the registry unchanged; so at all
\* times every registered key maps to the class of the first register call made
\* for that key.
C2_DuplicateRegisterFails ==
    /\ (regLast.op = "register" /\ regLast.key \in DOMAIN regBefore[regLast.registry])
          => (regLast.outcome = "ValueError" /\ items = regBefore)
    /\ \A r \in RegistryNames :
          /\ DOMAIN items[r] = DOMAIN firstCall[r]
          /\ \A k \in DOMAIN items[r] : items[r][k] = firstCall[r][k]

\* a second register for a key, with another class than the first, has been refused
C2_Witness ==
    /\ regLast.op = "register"
    /\ regLast.key \in DOMAIN regBefore[regLast.registry]
    /\ regLast.cls # regBefore[regLast.registry][regLast.key]
    /\ regLast.outcome = "ValueError"

\* C3 as stated: whatever examples(), iteration and len() calls are made on one
\* Dataset instance, the load is invoked at most once, and every call after the
\* first returns the same sequence.
C3_LoadInvokedAtMostOnce ==
    /\ loadCalls <= 1
    /\ (dsLast.op \in {"examples", "iter"} /\ dsLast.outcome = "ok")
          => dsLast.returned = dsFirst.value

\* C3 as amended: the load runs to completion at most once per Dataset instance; a
\* call made once a load has completed invokes no load, does not fail, and returns
\* the sequence that load produced, in the same order (len() its length), even when
\* the file has changed since; a call made while no load has completed invokes the
\* load (again).
C3_LoadCompletesAtMostOnce ==
    /\ loadsDone <= 1
    /\ (dsLast.op # "none" /\ dsLast.cachedBefore)
          => (dsLast.loads = 0 /\ dsLast.outcome = "ok")
    /\ (dsLast.op # "none" /\ ~dsLast.cachedBefore) => dsLast.loads = 1
    /\ (dsLast.op \in {"examples", "iter"} /\ dsLast.outcome = "ok")
          => dsLast.returned = dsFirst.value
    /\ (dsLast.op = "len" /\ dsLast.outcome = "ok") => dsLast.count = Len(dsFirst.value)
    /\ ~cache.isNone => (loadsDone = 1 /\ cache.value = dsFirst.value)

\* a call answered from the cache although the file has since become unloadable
C3_Witness ==
    /\ dsLast.op = "iter"
    /\ dsLast.cachedBefore
    /\ Len(dsLast.returned) = 2
    /\ loadCalls = 1
    /\ Load(file).error # None

\* C4: for both tasks, batched or not, and a model whose predict answers every
\* example of the dataset with a response carrying the example's uid, Task.run
\* returns, and whenever it returns it returns exactly one response per dataset
\* example, response i carrying the uid of the i-th example in the dataset's order.
C4_OneResponsePerExample ==
    taskOut.op = "run" =>
        LET ld == Load(file)
            exs == ld.yielded
        IN  /\ (ld.error = None /\ \A i \in 1..Len(exs) : Predict(model, exs[i]).error = None)
                  => taskOut.error = None
            /\ taskOut.error = None
                  => /\ ld.error = None
                     /\ Len(taskOut.responses) = Len(exs)
                     /\ \A i \in 1..Len(exs) : taskOut.responses[i].uid = exs[i].uid

\* a batched retrieval-qa run has returned four responses, the last one from a partial batch
C4_Witness ==
    /\ taskOut.op = "run"
    /\ taskOut.error = None
    /\ taskKind = "RetrievalQuestionAnsweringTask"
    /\ model.hasBatchSize /\ model.batch_size = PyInt(3)
    /\ Len(taskOut.responses) = 4

\* the predict_batch calls among the calls, in order
BatchCalls(calls) == SelectSeq(calls, LAMBDA c : c.fn = "predict_batch")

RECURSIVE ConcatArgs(_)
ConcatArgs(calls) == IF calls = <<>> THEN <<>> ELSE Head(calls).arg \o ConcatArgs(Tail(calls))

\* C5: in the retrieval-qa task, with a batch_size that is an integer B > 1 and a
\* dataset of N examples, no batch handed to predict_batch is empty or longer than
\* B, and a run that returns has called predict_batch exactly ceil(N/B) times, every
\* call but possibly the last with exactly B examples, the batches concatenated in
\* call order being the dataset sequence; with a batch_size that is absent, no
\* integer, or <= 1, predict_batch is never called and a run that returns has called
\* predict once per example, in order.
C5_Batching ==
    (taskOut.op = "run" /\ taskKind = "RetrievalQuestionAnsweringTask") =>
        LET exs == Load(file).yielded
            N == Len(exs)
            bc == BatchCalls(taskOut.calls)
            B == model.batch_size.value
        IN  IF model.hasBatchSize /\ model.batch_size.type \in {"int", "bool"} /\ B > 1
            THEN /\ \A k \in 1..Len(bc) : Len(bc[k].arg) \in 1..B
                 /\ taskOut.error = None
                       => /\ Len(bc) = (N + B - 1) \div B
                          /\ \A k \in 1..(Len(bc) - 1) : Len(bc[k].arg) = B
                          /\ ConcatArgs(bc) = exs
            ELSE /\ bc = <<>>
                 /\ taskOut.error = None
                       => taskOut.calls = [i \in 1..N |-> Call("predict", <<exs[i]>>)]

\* four examples have gone through predict_batch in batches of three and one
C5_Witness ==
    /\ taskOut.op = "run"
    /\ taskOut.error = None
    /\ taskKind = "RetrievalQuestionAnsweringTask"
    /\ model.hasBatchSize /\ model.batch_size = PyInt(3)
    /\ Len(BatchCalls(taskOut.calls)) = 2
    /\ Len(BatchCalls(taskOut.calls)[2].arg) = 1

\* C6: the default predict_batch, called with N examples, calls predict once per
\* example in input order; it returns N responses, response i being what predict
\* returns for example i, and where a predict raises it raises that error at that
\* example, as N sequential predict calls do.
C6_DefaultPredictBatch ==
    taskOut.op = "predict_batch" =>
        LET exs == taskOut.input
            N == Len(exs)
            failing == {i \in 1..N : Predict(model, exs[i]).error # None}
        IN  IF failing = {}
            THEN /\ taskOut.error = None
                 /\ Len(taskOut.responses) = N
                 /\ \A i \in 1..N : taskOut.responses[i] = Predict(model, exs[i]).response
                 /\ taskOut.calls = [i \in 1..N |-> Call("predict", <<exs[i]>>)]
            ELSE LET j == CHOOSE i \in failing : \A k \in failing : i <= k IN
                 /\ taskOut.error = Predict(model, exs[j]).error
                 /\ taskOut.responses = <<>>
                 /\ taskOut.calls = [i \in 1..j |-> Call("predict", <<exs[i]>>)]

\* predict_batch has returned three responses that are not all alike
C6_Witness ==
    /\ taskOut.op = "predict_batch"
    /\ taskOut.error = None
    /\ Len(taskOut.responses) = 3
    /\ taskOut.responses[1].output # taskOut.responses[2].output

\* the events of kind ev in a log
EventsOf(log, evs) == SelectSeq(log, LAMBDA e : e.ev \in evs)

PredictEvents == {"predict", "predict_batch"}

\* the step of run an event belongs to
StepOf(e) ==
    CASE e.ev \in {"create:dataset", "create:model", "create:task", "create:metric"} -> 1
      [] e.ev = "now" /\ e.arg = "start_time" -> 2
      [] e.ev \in {"task.run"} \cup PredictEvents -> 3
      [] e.ev = "now" /\ e.arg = "completed_time" -> 4
      [] e.ev = "compute" -> 5
      [] e.ev = "predictions" -> 6
      [] OTHER -> 7

\* the log of a run that returned: every step, once, for this configuration
IsFullRun(log) ==
    /\ Len(EventsOf(log, {"create:dataset"})) = 1
    /\ Len(EventsOf(log, {"create:model"})) = 1
    /\ Len(EventsOf(log, {"create:task"})) = 1
    /\ Len(EventsOf(log, {"create:metric"})) = Len(config.metrics)
    /\ Len(EventsOf(log, {"now"})) = 2
    /\ Len(EventsOf(log, {"task.run"})) = 1
    /\ Len(EventsOf(log, {"compute"})) = Len(config.metrics)
    /\ Len(EventsOf(log, {"predictions"})) = 1
    /\ Len(EventsOf(log, {"persist"})) = 1

\* C7: the steps of one run occur in the order resolve components and metrics,
\* start timestamp, Task.run to completion, completion timestamp, compute every
\* metric, build prediction records, persist: the log never steps back, no metric
\* is computed while Task.run has not returned, a run that returns has made every step
\* once, and its started_at is at most its completed_at.
C7_StepsInOrder ==
    /\ \A i, j \in 1..Len(events) : i < j => StepOf(events[i]) <= StepOf(events[j])
    /\ EventsOf(events, {"compute"}) # <<>> => locals.completed_time >= 0 /\ pc # "task_run"
    /\ Len(EventsOf(events, {"now"})) <= 2
    /\ Len(EventsOf(events, {"task.run"})) <= 1
    /\ pc = "done" =>
          /\ IsFullRun(events)
          /\ result.started_at <= result.completed_at
          /\ result.started_at = locals.start_time
          /\ result.completed_at = locals.completed_time

\* a run that returned after predictions, two metrics and a write, its task run having
\* taken time
C7_Witness ==
    /\ pc = "done"
    /\ Len(config.metrics) = 2
    /\ Len(locals.responses) >= 2
    /\ result.started_at < result.completed_at
    /\ result.output_path # None

\* C8: an exception raised by component resolution, dataset loading, a prediction or
\* a metric computation is the one that reaches the caller: it is the only one raised,
\* no step is run again, no result is returned and no file is written.
C8_ExceptionsPropagate ==
    thrown # <<>> =>
        /\ Len(thrown) = 1
        /\ pc = "raised"
        /\ raised = thrown[1].error
        /\ result = NoResult
        /\ fs = EmptyItems
        /\ EventsOf(events, {"persist", "write"}) = <<>>
        /\ Len(EventsOf(events, {"task.run"})) <= 1
        /\ Len(EventsOf(events, {"create:dataset"})) <= 1

\* a metric computation raised after every prediction was made, with an output
\* directory configured
C8_Witness ==
    /\ thrown # <<>>
    /\ thrown[1].stage = "compute_metrics"
    /\ Len(locals.responses) >= 1
    /\ config.directory # None
    /\ pc = "raised"

\* C9: when the file does not load, whichever record fails, the run aborts in Task.run
\* at the latest and no predict or predict_batch call is ever made.
C9_LoadFailureBeforePredict ==
    Load(file).error # None =>
        /\ EventsOf(events, PredictEvents) = <<>>
        /\ pc \in {"create_dataset", "create_model", "create_task", "build_metrics",
                   "start_time", "task_run", "raised"}
        /\ result = NoResult

\* the batching task aborted on a file whose last record is malformed, after records
\* enough for a batch
C9_Witness ==
    /\ pc = "raised"
    /\ thrown # <<>>
    /\ thrown[1].stage = "task_run"
    /\ thrown[1].error = Load(file).error
    /\ Len(Load(file).yielded) >= 2
    /\ taskKind = "RetrievalQuestionAnsweringTask"
    /\ model.hasBatchSize

\* the errors of a configuration: the registry's KeyError for an unknown key, the
\* ValueError for an unsupported averaging mode
ConfigurationErrors == {"KeyError", "ValueError:average"}

\* C10: a run that fails on a configuration or registry error (unknown dataset, model,
\* task or metric key, unsupported averaging mode) has made no predict or predict_batch
\* call.
C10_ConfigurationErrorsBeforePredict ==
    (pc = "raised" /\ raised \in ConfigurationErrors) =>
        EventsOf(events, PredictEvents) = <<>>

\* the models whose predict fails until warmup has succeeded
NeedsWarmup(m) == m.cls = "LangChainRagModel"

\* C11: a run whose model requires warmup has the warmup invoked, at most once, before
\* its first prediction, and does not fail on the model not being ready: whenever a
\* predict or predict_batch call has been made on such a model, one warmup call
\* precedes it in the log and the run has not raised the not-ready error.
C11_WarmupBeforeFirstPredict ==
    (pc \notin {"create_dataset", "create_model"} /\ NeedsWarmup(model)
        /\ EventsOf(events, PredictEvents) # <<>>) =>
        /\ Len(EventsOf(events, {"warmup"})) = 1
        /\ \E i \in 1..Len(events) :
              /\ events[i].ev = "warmup"
              /\ \A j \in 1..Len(events) : events[j].ev \in PredictEvents => i < j
        /\ raised # "RuntimeError"

\* the compute call of SpecMetric has been made
Computed == mOut.op = "compute"

\* C12: compute called with len(examples) != len(responses) fails with the
\* misaligned-batch error and returns no MetricResult.
C12_MisalignedBatchFails ==
    (Computed /\ Len(mIn.examples) # Len(mIn.responses)) => mOut.error # None

\* C13: precision, recall or f1 with an average name other than macro, weighted or micro
\* fails with the invalid-average error on every compute call, the one with no examples
\* and no responses included.
C13_InvalidAverageAlwaysFails ==
    (Computed /\ mIn.metric.cls \in ScoreClasses /\ mIn.metric.average \notin Averages)
        => mOut.error = "ValueError:average"

\* the sum of matrix[i][i]
RECURSIVE DiagonalSum(_, _)
DiagonalSum(matrix, i) ==
    IF i > Len(matrix) THEN 0 ELSE matrix[i][i] + DiagonalSum(matrix, i + 1)

\* C18: for aligned examples and responses, the diagonal of the confusion matrix sums
\* to the correct count of the accuracy metric on the same input, whatever the types of
\* the expected and predicted values.
C18_DiagonalEqualsCorrect ==
    (Computed /\ mIn.metric.cls = "ConfusionMatrixMetric"
        /\ Len(mIn.examples) = Len(mIn.responses)) =>
        DiagonalSum(mOut.result.matrix, 1) =
            AccuracyCompute(mIn.metric, mIn.examples, mIn.responses).result.correct

\* every prediction equals its expected label, over N >= 1 examples
AllCorrect ==
    /\ Len(mIn.examples) >= 1
    /\ Len(mIn.examples) = Len(mIn.responses)
    /\ \A i \in 1..Len(mIn.examples) : mIn.examples[i].expected = mIn.responses[i].output

\* C19: when every prediction equals its expected label over N >= 1 examples, accuracy
\* is 1.0 with correct = total = N, macro precision, recall and F1 are 1.0, and the
\* confusion matrix is square over the sorted labels, with a diagonal that sums to N and
\* zeros elsewhere.
C19_PerfectPredictions ==
    (Computed /\ AllCorrect) =>
        LET n == Len(mIn.examples)
            r == mOut.result
        IN  /\ mOut.error = None \/ mIn.metric.average \notin Averages
            /\ mIn.metric.cls = "AccuracyMetric" =>
                  r.value = One /\ r.correct = n /\ r.total = n
            /\ (mIn.metric.cls \in ScoreClasses /\ mIn.metric.average = "macro") =>
                  mOut.error = None /\ r.value = One
            /\ mIn.metric.cls = "ConfusionMatrixMetric" =>
                  /\ r.labels = Sorted({PyStr(mIn.examples[i].expected) : i \in 1..n})
                  /\ Len(r.matrix) = Len(r.labels)
                  /\ \A i \in 1..Len(r.matrix) : Len(r.matrix[i]) = Len(r.labels)
                  /\ DiagonalSum(r.matrix, 1) = n
                  /\ \A i, j \in 1..Len(r.matrix) : i # j => r.matrix[i][j] = 0

\* a macro score computed over three correct predictions with two distinct labels
C19_Witness ==
    /\ Computed
    /\ AllCorrect
    /\ Len(mIn.examples) = 3
    /\ mIn.metric.cls = "F1ScoreMetric"
    /\ mIn.metric.average = "macro"
    /\ Cardinality({PyStr(mIn.examples[i].expected) : i \in 1..3}) = 2
    /\ mOut.result.value = One

\* run has returned a result
Returned == pc = "done"

\* the examples of the dataset of the run, once loaded
RunExamples == cache.value

\* C14: a run that returns has written exactly one record, in the configured output
\* directory, and its result's output_path is the location of that record; without an
\* output directory it has written nothing and output_path is None.
C14_OneRecordInOutputDirectory ==
    Returned =>
        IF config.directory = None
        THEN /\ fs = EmptyItems
             /\ result.output_path = None
             /\ EventsOf(events, {"write"}) = <<>>
        ELSE /\ DOMAIN fs = {result.output_path}
             /\ result.output_path = FilePath(config.directory, config.name, result.completed_at)
             /\ EventsOf(events, {"write"}) = <<Event("write", result.output_path)>>

\* a run that returned with its record written under the output directory
C14_Witness ==
    /\ Returned
    /\ config.directory = "runs"
    /\ Cardinality(DOMAIN fs) = 1
    /\ result.output_path = "runs/demo_1.json"

\* C15: the persisted record holds the ordered predictions if and only if
\* save_predictions is true, and always name, task, both timestamps and the ordered
\* metrics; the returned result carries every prediction whatever save_predictions is.
C15_PredictionsSavedOnRequest ==
    Returned =>
        /\ Len(result.predictions) = Len(RunExamples)
        /\ config.directory # None =>
              LET payload == fs[result.output_path] IN
              /\ payload.hasPredictions = config.save_predictions
              /\ payload.hasPredictions => payload.predictions = result.predictions
              /\ ~payload.hasPredictions => payload.predictions = <<>>
              /\ payload.name = config.name
              /\ payload.task = config.task
              /\ payload.started_at = result.started_at
              /\ payload.completed_at = result.completed_at
              /\ payload.metrics = result.metrics

\* a record written without predictions for a result that holds two
C15_Witness ==
    /\ Returned
    /\ config.directory # None
    /\ ~config.save_predictions
    /\ Len(result.predictions) = 2
    /\ ~fs[result.output_path].hasPredictions
    /\ Len(fs[result.output_path].metrics) >= 1

\* the class registered under a metric key by the modules of the repository
MetricClassOf(type) == AllItems["metric"][type]

\* the name configured for a metric, else its class name in lower case
ExpectedMetricName(mc) ==
    IF mc.name # None THEN mc.name
    ELSE CASE MetricClassOf(mc.type) = "AccuracyMetric" -> "accuracymetric"
           [] MetricClassOf(mc.type) = "PrecisionMetric" -> "precisionmetric"
           [] MetricClassOf(mc.type) = "RecallMetric" -> "recallmetric"
           [] MetricClassOf(mc.type) = "F1ScoreMetric" -> "f1scoremetric"

\* C16: the result of a run holds one MetricResult per configured metric, in
\* configuration order, entry i named by the configured name of metric i or by its
\* lowercased class name.
C16_OneMetricResultPerMetric ==
    Returned =>
        /\ Len(result.metrics) = Len(config.metrics)
        /\ \A i \in 1..Len(config.metrics) :
              result.metrics[i].name = ExpectedMetricName(config.metrics[i])

\* a result with an unnamed accuracy after a named precision
C16_Witness ==
    /\ Returned
    /\ Len(result.metrics) = 2
    /\ config.metrics[1].name = "precision_macro"
    /\ config.metrics[2].name = None
    /\ result.metrics[2].name = "accuracymetric"
    /\ Len(RunExamples) >= 1

\* C17: the result of a run holds one PredictionRecord per dataset example, in dataset
\* order; record i carries uid, inputs and expected_output of example i and the output
\* and the metadata of response i, which is the response the model produces for
\* example i and whose uid is the uid of the record.
C17_OnePredictionRecordPerExample ==
    Returned =>
        /\ Len(result.predictions) = Len(RunExamples)
        /\ Len(locals.responses) = Len(RunExamples)
        /\ \A i \in 1..Len(RunExamples) :
              /\ result.predictions[i].uid = RunExamples[i].uid
              /\ result.predictions[i].text = RunExamples[i].text
              /\ result.predictions[i].expected = RunExamples[i].expected
              /\ result.predictions[i].predicted = locals.responses[i].output
              /\ result.predictions[i].metadata = locals.responses[i].metadata
              /\ result.predictions[i].metadata = Predict(model, RunExamples[i]).response.metadata
              /\ locals.responses[i].uid = result.predictions[i].uid
              /\ Predict(model, RunExamples[i]).response = locals.responses[i]

\* a result over three examples whose predictions differ, in output and in metadata
C17_Witness ==
    /\ Returned
    /\ Len(result.predictions) = 3
    /\ result.predictions[1].predicted # result.predictions[3].predicted
    /\ result.predictions[1].metadata # result.predictions[3].metadata
    /\ result.predictions[1].metadata.matched_keyword = RunExamples[1].text
    /\ result.predictions[1].uid = "0"
    /\ result.predictions[3].uid = "2"

\* every hypothesis has at least one token and is token-identical to its reference,
\* over aligned inputs
TokenIdentical ==
    /\ Len(mIn.examples) = Len(mIn.responses)
    /\ Len(mIn.examples) >= 1
    /\ \A i \in 1..Len(mIn.examples) :
          /\ Tokenize(PyStr(mIn.responses[i].output)) # <<>>
          /\ Tokenize(PyStr(mIn.examples[i].expected)) = Tokenize(PyStr(mIn.responses[i].output))

\* C20: BLEU with the default max_n = 4 returns exactly 1.0 whenever every hypothesis
\* is token-identical to its reference, whatever the length of the hypotheses (of one
\* token at least), "the cat sat" included.
C20_BleuOfIdenticalIsOne ==
    (Computed /\ mIn.metric.cls = "BleuMetric" /\ TokenIdentical) =>
        mOut.error = None /\ mOut.result.value.is_one

\* every zipped pair is token-identical after lowercasing and whitespace splitting,
\* empty pairs included, and there is one pair at least
PairsIdentical ==
    /\ Zip(mIn.examples, mIn.responses) # {}
    /\ \A i \in Zip(mIn.examples, mIn.responses) :
          Tokenize(PyStr(mIn.examples[i].expected)) = Tokenize(PyStr(mIn.responses[i].output))

\* the token sequences of the references and hypotheses of the input
InputTokens ==
    {Tokenize(PyStr(mIn.examples[i].expected)) : i \in 1..Len(mIn.examples)}
        \cup {Tokenize(PyStr(mIn.responses[i].output)) : i \in 1..Len(mIn.responses)}

\* C21: ROUGE-L returns exactly 1.0 whenever every hypothesis is token-identical to
\* its reference after lowercasing and whitespace splitting, a pair of empty texts
\* included; and the longest common subsequence of a token sequence with itself has
\* the length of the sequence.
C21_RougeOfIdenticalIsOne ==
    /\ \A t \in InputTokens : LcsLength(t, t) = Len(t)
    /\ (Computed /\ mIn.metric.cls = "RougeLMetric" /\ PairsIdentical) =>
           mOut.error = None /\ mOut.result.value = One

\* ROUGE-L has scored an empty pair and a pair that differs in case and repeats a
\* token
C21_Witness ==
    /\ Computed
    /\ mIn.metric.cls = "RougeLMetric"
    /\ PairsIdentical
    /\ Len(mIn.examples) = 2
    /\ mIn.examples[1].expected = Lbl("")
    /\ mIn.examples[2].expected = Lbl("the cat sat on the mat")
    /\ mOut.result.value = One

McpPredicted == mcpLast.op = "predict"

\* C22: on a server that exposes the configured tool for as long as the call lasts,
\* predict lists the tools if and only if no warmup has succeeded on the adapter
\* before, and before the tool call: a predict on an adapter not warmed up issues
\* initialize, list_tools, initialize, call_tool, in this order and nothing else; a
\* predict after a successful warmup opens one session and issues no list_tools.
C22_PredictWarmsUpOnce ==
    (McpPredicted /\ Exposes(mcpLast.server, mcpLast.before.model_id)
        /\ Exposes(mcpLast.toolServer, mcpLast.before.model_id)) =>
        /\ Has(mcpLast.calls, "list_tools") <=> ~mcpLast.foundBefore
        /\ mcpLast.before.ready <=> mcpLast.foundBefore
        /\ ~mcpLast.before.ready =>
              mcpLast.calls = <<"initialize", "list_tools", "initialize", "call_tool">>
        /\ mcpLast.before.ready => mcpLast.calls = <<"initialize", "call_tool">>

\* a first predict has warmed the adapter up itself
C22_Witness ==
    /\ McpPredicted
    /\ mcpLast.prevOp = "none"
    /\ mcpLast.error = None
    /\ mcpLast.calls = <<"initialize", "list_tools", "initialize", "call_tool">>

\* a predict after a successful warmup call has opened one session
C22_WitnessAfterWarmup ==
    /\ McpPredicted
    /\ mcpLast.prevOp = "warmup"
    /\ mcpLast.prevError = None
    /\ mcpLast.calls = <<"initialize", "call_tool">>

\* C23: a predict whose tool call raises a transport error, or whose tool result is
\* flagged as an error, raises a RuntimeError and returns no ModelResponse; a predict
\* returns a ModelResponse only for a tool result that is no error, and the response
\* has the uid of the example of the call.
C23_ToolErrorsRaiseRuntimeError ==
    McpPredicted =>
        /\ (Has(mcpLast.calls, "call_tool") /\ mcpLast.toolServer.call \in {"McpError", "isError"})
              => mcpLast.error \in McpRuntimeErrors /\ mcpLast.response = NoResponse
        /\ mcpLast.error # None => mcpLast.response = NoResponse
        /\ mcpLast.error = None =>
              /\ Has(mcpLast.calls, "call_tool")
              /\ mcpLast.toolServer.call = "ok"
              /\ mcpLast.response =
                    ModelResponse(mcpLast.uid, Lbl(mcpLast.toolServer.text),
                                  McpMetadata(adapter, mcpLast.toolServer, [uid |-> mcpLast.uid]))

\* a tool result flagged as an error has made predict raise
C23_Witness ==
    /\ McpPredicted
    /\ mcpLast.toolServer.call = "isError"
    /\ Has(mcpLast.calls, "call_tool")
    /\ mcpLast.error = "RuntimeError:error_response"

\* C29: _ready changes only from not ready to ready, and only in a call whose warmup
\* session found model_id among the listed tools; a warmup that fails leaves the
\* adapter not ready and the predict that ran it issues no call_tool; a predict on an
\* adapter that is not ready attempts the warmup, whatever failed before; an adapter
\* that is ready stays ready.
C29_ReadyOnlyAfterToolFound ==
    /\ adapter.ready <=> found
    /\ mcpLast.before.ready => adapter.ready
    /\ (adapter.ready /\ ~mcpLast.before.ready) =>
          /\ Has(mcpLast.calls, "list_tools")
          /\ Exposes(mcpLast.server, mcpLast.before.model_id)
    /\ (mcpLast.op # "none" /\ ~mcpLast.before.ready
            /\ ~Exposes(mcpLast.server, mcpLast.before.model_id)) =>
          /\ ~adapter.ready
          /\ mcpLast.error # None
          /\ ~Has(mcpLast.calls, "call_tool")
    /\ (McpPredicted /\ ~mcpLast.before.ready) =>
          /\ mcpLast.calls[1] = "initialize"
          /\ mcpLast.server.connect = "ok" => mcpLast.calls[2] = "list_tools"

\* a predict whose warmup did not find the tool is followed by a predict that lists
\* the tools again, finds the tool and calls it
C29_Witness ==
    /\ McpPredicted
    /\ mcpLast.prevOp = "predict"
    /\ mcpLast.prevError = "RuntimeError:not_exposed"
    /\ ~mcpLast.before.ready
    /\ adapter.ready
    /\ mcpLast.calls = <<"initialize", "list_tools", "initialize", "call_tool">>

\* C24: the examples a JSONL dataset has successfully produced have pairwise distinct
\* uids, whatever the file: records with an explicit id mixed with records whose uid is
\* the line index, and repeated ids, included.
C24_UidsDistinct ==
    (dsLast.op = "examples" /\ dsLast.outcome = "ok") =>
        \A i, j \in 1..Len(dsLast.returned) :
            dsLast.returned[i].uid = dsLast.returned[j].uid => i = j

\* the exceptions a load of the files of the model ends with
LoadErrors == {"FileNotFoundError", "JSONDecodeError", "ValueError:text", "ValueError:label"}

\* C28: a call whose load fails raises the error of the load, caches nothing and
\* leaves the instance not loaded; while no load has completed every call invokes the
\* load (again); a cache is there only once a load has run to completion over all
\* records, and it holds the examples of that load.
C28_FailedLoadCachesNothing ==
    /\ (dsLast.op # "none" /\ dsLast.outcome # "ok") =>
          /\ dsLast.outcome \in LoadErrors
          /\ dsLast.loads = 1
          /\ ~dsLast.cachedBefore
          /\ dsLast.returned = <<>>
          /\ cache = NoCache
    /\ cache.isNone <=> loadsDone = 0
    /\ (dsLast.op # "none" /\ loadsDone = 0) => (dsLast.loads = 1 /\ dsLast.outcome # "ok")
    /\ ~cache.isNone => cache = dsFirst

\* the first load failed, the next call has invoked the load again and it completed
C28_Witness ==
    /\ loadCalls = 2
    /\ loadsDone = 1
    /\ dsLast.op = "examples"
    /\ dsLast.loads = 1
    /\ dsLast.outcome = "ok"
    /\ cache = Cached(dsLast.returned)
    /\ Len(dsLast.returned) = 2

\* the keys of the capability implementations of the repository, per registry
RepositoryKeys ==
    [dataset |-> {"jsonl-classification", "jsonl-rag"},
     model |-> {"keyword-matching", "sklearn-pipeline", "langchain-rag", "mcp"},
     task |-> {"text-classification", "retrieval-qa"},
     metric |-> {"accuracy", "precision", "recall", "f1", "confusion-matrix",
                 "label-distribution", "rouge-l", "bleu", "context-precision"}]

\* the configuration of the run names keys of the repository only
NamesRepositoryKeys ==
    /\ config.dataset \in RepositoryKeys["dataset"]
    /\ config.model \in RepositoryKeys["model"]
    /\ config.task \in RepositoryKeys["task"]
    /\ \A i \in 1..Len(config.metrics) : config.metrics[i].type \in RepositoryKeys["metric"]

\* C27: in a process whose startup imports have completed, every capability
\* implementation of the repository is registered under its key in the registry of its
\* category, and a run that names these keys only does not fail with the unknown-key
\* error.
C27_StartupRegistersEverything ==
    /\ \A r \in RegistryNames : RepositoryKeys[r] \subseteq DOMAIN items[r]
    /\ NamesRepositoryKeys => raised # "KeyError"

\* the instances run r has bound to its dataset, model and task variables
RefsOf(r) == {runs[r].dataset, runs[r].model, runs[r].task} \ {0}

\* C25: every run constructs its own Dataset, ModelAdapter and Task: the instances of
\* two runs served side by side are distinct objects, the task of a run is built on the
\* dataset and the model of that run, and no instance (its dataset cache, its model
\* state) is ever called by a run other than the one that constructed it.
C25_RunsOwnTheirInstances ==
    /\ \A r \in RunIds : \A i \in RefsOf(r) : heap[i].owner = r
    /\ \A r, q \in RunIds : r # q => RefsOf(r) \cap RefsOf(q) = {}
    /\ \A r \in RunIds :
          runs[r].task # 0 => /\ heap[runs[r].task].dataset = runs[r].dataset
                              /\ heap[runs[r].task].adapter = runs[r].model
    /\ \A i \in 1..Len(heap) : heap[i].users \subseteq {heap[i].owner}
    /\ \A r \in RunIds :
          runs[r].pc = "done" => Cardinality(RefsOf(r)) = 3

\* both runs have returned, each having loaded the cache of its own dataset
C25_Witness ==
    /\ \A r \in RunIds : runs[r].pc = "done"
    /\ Len(heap) = 6
    /\ \A r \in RunIds : /\ heap[runs[r].dataset].cache = Cached(Load(file).yielded)
                         /\ heap[runs[r].dataset].users = {r}
                         /\ heap[runs[r].model].users = {r}

\* the two runs have returned, with the same configuration name and output directory
\* and completion instants of the same second
SameSecond ==
    /\ \A r \in RunIds : runs[r].pc = "done"
    /\ runs["a"].config.name = runs["b"].config.name
    /\ runs["a"].config.directory = runs["b"].config.directory
    /\ Timestamp(runs["a"].result.completed_at) = Timestamp(runs["b"].result.completed_at)

\* C30: two runs with the same configuration name and output directory that complete
\* within the same second are persisted to the same path: once both have finished the
\* results of both report that path, and the file holds the record of the run that
\* wrote last and nothing else.
C30_LaterWriterRemains ==
    SameSecond =>
        /\ runs["a"].result.output_path = runs["b"].result.output_path
        /\ DOMAIN disk = {runs["a"].result.output_path}
        /\ disk[runs["a"].result.output_path] = JsonDump(runs[writes[Len(writes)]].payload)

\* both threads have left register, called for the same key of the same registry
SameKeyRegistered ==
    /\ \A t \in ThreadIds : threads[t].pc \in {"returned", "raised"}
    /\ threads["t1"].registry = threads["t2"].registry
    /\ threads["t1"].key = threads["t2"].key

\* C26: under every interleaving of concurrent register calls for the same key, exactly
\* one call succeeds when the key was free (none when it was taken), every other call
\* fails with the duplicate-key error, and the key stays mapped to the constructor of
\* the call that succeeded (to the one it had, when it was taken).
C26_OneRegisterSucceeds ==
    SameKeyRegistered =>
        LET r == threads["t1"].registry
            key == threads["t1"].key
            succeeded == {t \in ThreadIds : threads[t].outcome = "ok"}
        IN  /\ \A t \in ThreadIds \ succeeded : threads[t].outcome = "ValueError"
            /\ IF key \in DOMAIN regBefore[r]
               THEN succeeded = {} /\ items[r][key] = regBefore[r][key]
               ELSE /\ Cardinality(succeeded) = 1
                    /\ \A t \in succeeded : items[r][key] = threads[t].cls

====
